---- MODULE Spec2Model ----
(***************************************************************************)
(* A model of croak: the workflow executor (workflows/executor.py) over the *)
(* workflow maps of the pipeline state (core/state.py), the stage and       *)
(* message lists of the pipeline state, the ValidationResult of the data    *)
(* validator (data/validator.py), the handoff validator                     *)
(* (contracts/validator.py) with its queries, the dataset splitter          *)
(* (data/splitter.py), on small datasets and on the dataset of the tests,   *)
(* the state file with load and save of one PipelineState, and the commands *)
(* of cli.py and trainer.py run from two terminals over one state file.     *)
(* Further parts: the annotation format and image checks of the data        *)
(* validator with the directory scan (data/scanner.py), the experiments of  *)
(* the pipeline state, the workflow maps of the state with two workflows,   *)
(* a workflow run from empty progress one get_next_step at a time, and the  *)
(* pipeline commands of one terminal with croak next.                       *)
(* Each part has a specification of its own; the variables of the other     *)
(* parts stay at their initial values in it.                                *)
(***************************************************************************)
EXTENDS Integers, Sequences, FiniteSets, TLC

\* ------------------------------------------------------------------------
\* Bounds and input sets
\* ------------------------------------------------------------------------

\* The longest workflow definition the executor is run on, and the longest one
\* the Workflow methods are applied to.
MaxSteps == 2
MaxDefinitionSteps == 3

\* Step ids that workflow definitions and callers use.
StepIds == {"a", "b", "c"}

\* Workflow ids with a workflow.yaml under the workflows directory.
WorkflowIds == {"w1", "w2"}

\* A workflow id with no workflow.yaml (load_workflow raises FileNotFoundError).
UnknownWorkflow == "nowf"

\* depends_on lists: no dependency, one, or two different ones.
DepLists ==
    {<<>>} \cup {<<x>> : x \in StepIds}
           \cup {<<"a", "b">>, <<"a", "c">>, <<"b", "c">>}

\* The artifacts argument of complete_step: None, an empty dict, a non-empty dict.
ArtifactArgs == {"None", "empty", "art"}

\* ------------------------------------------------------------------------
\* State
\* ------------------------------------------------------------------------

VARIABLES
    workflows,           \* WorkflowExecutor: the definitions on disk, by workflow id
    workflow_progress,   \* PipelineState.workflow_progress: dict id -> list of step ids
    workflow_artifacts,  \* PipelineState.workflow_artifacts: dict id -> dict step id -> payload
    stages_completed,    \* PipelineState.stages_completed: list of stage names
    warnings,            \* PipelineState.warnings: list of messages
    errors,              \* PipelineState.errors: list of messages
    validation_result,   \* a ValidationResult: passed, errors, warnings
    HAS_JSONSCHEMA,      \* contracts/validator.py: could jsonschema be imported
    contracts_dir,       \* HandoffValidator.contracts_dir: schema file name -> schema
    schemas,             \* HandoffValidator._schemas: contract name -> loaded schema
    handoffs_dir,        \* HandoffValidator.handoffs_dir: does it exist, file name -> file
    clock,               \* the wall clock, in seconds
    raw_dir,             \* DatasetSplitter.data_dir: the image and label files
    output_dir,          \* DatasetSplitter: the output directory and what is in it
    rng,                 \* the state of Python's global random generator
    runs,                \* the split calls made so far and what each returned
    state_file,          \* .croak/pipeline-state.yaml: does it exist, its lines
    procs,               \* the command processes: command, position, in-memory state
    last                 \* the last call made and what it returned or raised

workflowVars   == <<workflows, workflow_progress, workflow_artifacts>>
stateVars      == <<stages_completed, warnings, errors>>
validationVars == <<validation_result>>
handoffVars    == <<HAS_JSONSCHEMA, contracts_dir, schemas, handoffs_dir, clock>>
splitterVars   == <<raw_dir, output_dir, rng, runs>>
projectVars    == <<state_file, procs>>

vars == <<workflowVars, stateVars, validationVars, handoffVars, splitterVars,
          projectVars, last>>

\* ------------------------------------------------------------------------
\* Python helpers
\* ------------------------------------------------------------------------

\* x in list
In(x, list) == \E i \in DOMAIN list : list[i] = x

\* list.append(x)
PyAppend(list, x) == Append(list, x)

\* bool(artifacts) for None or a dict
Truthy(artifacts) == artifacts \notin {"None", "empty"}

\* dict[key] = value
DictSet(dict, key, value) ==
    [k \in DOMAIN dict \cup {key} |-> IF k = key THEN value ELSE dict[k]]

\* dict.pop(key, None)
DictPop(dict, key) == [k \in DOMAIN dict \ {key} |-> dict[k]]

\* the empty dict
EmptyDict == [k \in {} |-> 0]

RECURSIVE Gcd(_, _)
Gcd(m, n) == IF n = 0 THEN m ELSE Gcd(n, m % n)

\* ------------------------------------------------------------------------
\* Workflow (executor.py)
\* ------------------------------------------------------------------------

WorkflowStep == [id : StepIds, depends_on : DepLists]

Workflow(max_steps) == [steps : UNION {[1..n -> WorkflowStep] : n \in 0..max_steps}]

\* Step ids are only ever compared for equality, so definitions are drawn up to
\* renaming: reading the definition in declared order (each step's id, then its
\* depends_on), the ids first appear in the order of IdOrder.
IdOrder == <<"a", "b", "c">>

RECURSIVE Mentions(_, _)
Mentions(steps, i) ==
    IF i > Len(steps) THEN <<>>
    ELSE <<steps[i].id>> \o steps[i].depends_on \o Mentions(steps, i + 1)

UpToRenaming(workflow) ==
    LET m == Mentions(workflow.steps, 1)
    IN  \A k \in DOMAIN IdOrder \ {1} : \A p \in DOMAIN m :
            m[p] = IdOrder[k] => \E q \in 1..(p - 1) : m[q] = IdOrder[k - 1]

WorkflowDefinitions(max_steps) == {w \in Workflow(max_steps) : UpToRenaming(w)}

\* Lists of completed step ids handed to get_next_step and get_progress: every
\* list of different step ids, in every order.
CompletedLists ==
    UNION {{l \in [1..Cardinality(S) -> S] : \A i, j \in DOMAIN l : i # j => l[i] # l[j]}
           : S \in SUBSET StepIds}

\* get_step returns the step's position in workflow.steps; None is position 0.
NoStep == 0

get_step(workflow, step_id) ==
    LET hits == {i \in DOMAIN workflow.steps : workflow.steps[i].id = step_id}
    IN  IF hits = {} THEN NoStep
        ELSE CHOOSE i \in hits : \A j \in hits : i <= j

\* Mutant of NextStepFrom: the first step not yet completed, dependencies ignored.
RECURSIVE NextStepFrom_IgnoreDependencies(_, _, _)
NextStepFrom_IgnoreDependencies(steps, completed, i) ==
    IF i > Len(steps) THEN NoStep
    ELSE IF ~In(steps[i].id, completed) THEN i
         ELSE NextStepFrom_IgnoreDependencies(steps, completed, i + 1)

RECURSIVE NextStepFrom(_, _, _)
NextStepFrom(steps, completed, i) ==
    IF i > Len(steps) THEN NoStep
    ELSE IF /\ ~In(steps[i].id, completed)
            /\ \A k \in DOMAIN steps[i].depends_on :
                   In(steps[i].depends_on[k], completed)
         THEN i
         ELSE NextStepFrom(steps, completed, i + 1)

get_next_step(workflow, completed) == NextStepFrom(workflow.steps, completed, 1)

\* done / total * 100 as a fraction in lowest terms, <<numerator, denominator>>.
Percent(done, total) ==
    IF total > 0
    THEN LET g == Gcd(done * 100, total) IN <<(done * 100) \div g, total \div g>>
    ELSE <<0, 1>>

\* Mutant of get_progress: counts the completed ids, not the steps that have them.
get_progress_CountIds(workflow, completed) ==
    LET total == Len(workflow.steps)
        done  == Len(completed)
    IN  [total_steps      |-> total,
         completed_steps  |-> done,
         remaining_steps  |-> total - done,
         progress_percent |-> Percent(done, total),
         is_complete      |-> done = total]

get_progress(workflow, completed) ==
    LET total == Len(workflow.steps)
        done  == Cardinality({i \in DOMAIN workflow.steps :
                                  In(workflow.steps[i].id, completed)})
    IN  [total_steps      |-> total,
         completed_steps  |-> done,
         remaining_steps  |-> total - done,
         progress_percent |-> Percent(done, total),
         is_complete      |-> done = total]

\* ------------------------------------------------------------------------
\* PipelineState workflow helpers (state.py)
\* ------------------------------------------------------------------------

get_workflow_progress(progress, workflow_id) ==
    IF workflow_id \in DOMAIN progress THEN progress[workflow_id] ELSE <<>>

get_workflow_artifacts(artifacts, workflow_id) ==
    IF workflow_id \in DOMAIN artifacts THEN artifacts[workflow_id] ELSE EmptyDict

\* complete_workflow_step: the new workflow_progress.
StepProgress(progress, workflow_id, step_id) ==
    LET p1 == IF workflow_id \notin DOMAIN progress
              THEN DictSet(progress, workflow_id, <<>>) ELSE progress
    IN  IF ~In(step_id, p1[workflow_id])
        THEN DictSet(p1, workflow_id, PyAppend(p1[workflow_id], step_id))
        ELSE p1

\* complete_workflow_step: the new workflow_artifacts.
StepArtifacts(artifacts, workflow_id, step_id, payload) ==
    IF Truthy(payload)
    THEN LET a1 == IF workflow_id \notin DOMAIN artifacts
                   THEN DictSet(artifacts, workflow_id, EmptyDict) ELSE artifacts
         IN  DictSet(a1, workflow_id, DictSet(a1[workflow_id], step_id, payload))
    ELSE artifacts

complete_workflow_step(workflow_id, step_id, payload) ==
    /\ workflow_progress' = StepProgress(workflow_progress, workflow_id, step_id)
    /\ workflow_artifacts' =
           StepArtifacts(workflow_artifacts, workflow_id, step_id, payload)

\* Mutant of state_reset_workflow: every workflow is reset.
state_reset_workflow_ClearAll(workflow_id) ==
    /\ workflow_progress' = EmptyDict
    /\ workflow_artifacts' = EmptyDict

\* Mutant of state_reset_workflow: the artifacts are kept.
state_reset_workflow_KeepArtifacts(workflow_id) ==
    /\ workflow_progress' = DictPop(workflow_progress, workflow_id)
    /\ workflow_artifacts' = workflow_artifacts

\* reset_workflow of the state
state_reset_workflow(workflow_id) ==
    /\ workflow_progress' = DictPop(workflow_progress, workflow_id)
    /\ workflow_artifacts' = DictPop(workflow_artifacts, workflow_id)

\* ------------------------------------------------------------------------
\* WorkflowExecutor (executor.py)
\* ------------------------------------------------------------------------

get_workflow_status(workflow, progress, workflow_id) ==
    LET completed == get_workflow_progress(progress, workflow_id)
        next_step == get_next_step(workflow, completed)
    IN  [progress     |-> get_progress(workflow, completed),
         current_step |-> IF next_step # NoStep
                          THEN workflow.steps[next_step].id ELSE "None",
         completed    |-> completed]

\* The first dependency of the step that is not in completed, "" when all are.
UnmetDependency(step, completed) ==
    LET unmet == {k \in DOMAIN step.depends_on : ~In(step.depends_on[k], completed)}
    IN  IF unmet = {} THEN ""
        ELSE step.depends_on[CHOOSE k \in unmet : \A j \in unmet : k <= j]

\* Mutant of CompleteStepCheck: the dependency check is left out.
CompleteStepCheck_NoDependencyCheck(workflow, progress, workflow_id, step_id) ==
    IF get_step(workflow, step_id) = NoStep THEN "ValueError: Step not found" ELSE "ok"

\* What complete_step does before it updates the state: "ok" or the error raised.
CompleteStepCheck(workflow, progress, workflow_id, step_id) ==
    LET step == get_step(workflow, step_id)
    IN  IF step = NoStep THEN "ValueError: Step not found"
        ELSE IF UnmetDependency(workflow.steps[step],
                                get_workflow_progress(progress, workflow_id)) # ""
             THEN "ValueError: Dependency not met"
             ELSE "ok"

\* validate_workflow's result when nothing was validated.
NoResult == [valid |-> FALSE, errors |-> <<>>, warnings |-> <<>>]

\* The record of a call: what was called and what it raised ("ok": it returned).
Call(op, workflow_id, step_id, outcome, result) ==
    [op |-> op, workflow_id |-> workflow_id, step_id |-> step_id,
     outcome |-> outcome, result |-> result]

complete_step(workflow_id, step_id, payload) ==
    IF workflow_id \notin DOMAIN workflows
    THEN /\ last' = Call("complete_step", workflow_id, step_id,
                         "FileNotFoundError", NoResult)
         /\ UNCHANGED <<workflows, workflow_progress, workflow_artifacts>>
    ELSE LET outcome == CompleteStepCheck(workflows[workflow_id], workflow_progress,
                                          workflow_id, step_id)
         IN  IF outcome # "ok"
             THEN /\ last' = Call("complete_step", workflow_id, step_id, outcome,
                                  NoResult)
                  /\ UNCHANGED <<workflows, workflow_progress, workflow_artifacts>>
             ELSE /\ complete_workflow_step(workflow_id, step_id, payload)
                  /\ last' = Call("complete_step", workflow_id, step_id, "ok", NoResult)
                  /\ UNCHANGED workflows

reset_workflow(workflow_id) ==
    /\ workflow_id \in DOMAIN workflows
    /\ state_reset_workflow(workflow_id)
    /\ last' = Call("reset_workflow", workflow_id, "", "ok", NoResult)
    /\ UNCHANGED workflows

\* One error per dependency on a step id that no step has, in the order found.
RECURSIVE DependencyErrors(_, _, _)
DependencyErrors(steps, i, step_ids) ==
    IF i > Len(steps) THEN <<>>
    ELSE LET NonExistent(dep) == dep \notin step_ids
             bad == SelectSeq(steps[i].depends_on, NonExistent)
         IN  [k \in DOMAIN bad |->
                 [kind |-> "non-existent step", step |-> steps[i].id, dep |-> bad[k]]]
             \o DependencyErrors(steps, i + 1, step_ids)

\* One warning per step whose file_path is set and no longer exists.
RECURSIVE FileWarnings(_, _, _)
FileWarnings(steps, i, missing_files) ==
    IF i > Len(steps) THEN <<>>
    ELSE (IF i \in missing_files THEN <<steps[i].id>> ELSE <<>>)
         \o FileWarnings(steps, i + 1, missing_files)

\* has_cycle(step_id, visited, stack): the sets are updated in place, so the
\* model returns them with the answer.
RECURSIVE has_cycle(_, _, _, _)
RECURSIVE HasCycleDeps(_, _, _, _, _)
has_cycle(workflow, step_id, visited, stack) ==
    LET v1   == visited \cup {step_id}
        s1   == stack \cup {step_id}
        step == get_step(workflow, step_id)
        r    == IF step # NoStep
                THEN HasCycleDeps(workflow, workflow.steps[step].depends_on, 1, v1, s1)
                ELSE [found |-> FALSE, visited |-> v1, stack |-> s1]
    IN  IF r.found THEN r
        ELSE [found |-> FALSE, visited |-> r.visited, stack |-> r.stack \ {step_id}]

HasCycleDeps(workflow, deps, k, visited, stack) ==
    IF k > Len(deps) THEN [found |-> FALSE, visited |-> visited, stack |-> stack]
    ELSE IF deps[k] \notin visited
         THEN LET r == has_cycle(workflow, deps[k], visited, stack)
              IN  IF r.found THEN r
                  ELSE HasCycleDeps(workflow, deps, k + 1, r.visited, r.stack)
         ELSE IF deps[k] \in stack
              THEN [found |-> TRUE, visited |-> visited, stack |-> stack]
              ELSE HasCycleDeps(workflow, deps, k + 1, visited, stack)

\* The first step, in declared order, for which has_cycle answers true; NoStep if none.
CycleStep(workflow) ==
    LET hits == {i \in DOMAIN workflow.steps :
                     has_cycle(workflow, workflow.steps[i].id, {}, {}).found}
    IN  IF hits = {} THEN NoStep
        ELSE CHOOSE i \in hits : \A j \in hits : i <= j

validate_workflow(workflow, missing_files) ==
    LET step_ids == {workflow.steps[i].id : i \in DOMAIN workflow.steps}
        cyc      == CycleStep(workflow)
        errs     == DependencyErrors(workflow.steps, 1, step_ids)
                    \o (IF cyc # NoStep
                        THEN <<[kind |-> "circular dependency",
                                step |-> workflow.steps[cyc].id, dep |-> ""]>>
                        ELSE <<>>)
    IN  [valid    |-> Len(errs) = 0,
         errors   |-> errs,
         warnings |-> FileWarnings(workflow.steps, 1, missing_files)]

\* validate_workflow of a workflow id with no definition on disk.
WorkflowNotFound ==
    [valid |-> FALSE,
     errors |-> <<[kind |-> "Workflow not found", step |-> "", dep |-> ""]>>,
     warnings |-> <<>>]

\* ------------------------------------------------------------------------
\* PipelineState stage and message lists (state.py)
\* ------------------------------------------------------------------------

\* Stage names the commands complete.
StageNames == {"data_preparation", "training", "evaluation", "deployment"}

\* Warning and error messages.
Messages == {"m1", "m2"}

\* The record of a call on a list: appended tells whether the list grew.
ListCall(op, arg, appended) == [op |-> op, arg |-> arg, appended |-> appended]

\* Mutant of complete_stage: the membership test is left out.
complete_stage_AlwaysAppend(stage) ==
    /\ stages_completed' = PyAppend(stages_completed, stage)
    /\ last' = ListCall("complete_stage", stage, TRUE)
    /\ UNCHANGED <<warnings, errors>>

complete_stage(stage) ==
    /\ stages_completed' = IF ~In(stage, stages_completed)
                           THEN PyAppend(stages_completed, stage)
                           ELSE stages_completed
    /\ last' = ListCall("complete_stage", stage, ~In(stage, stages_completed))
    /\ UNCHANGED <<warnings, errors>>

add_warning(warning) ==
    /\ warnings' = IF ~In(warning, warnings) THEN PyAppend(warnings, warning)
                   ELSE warnings
    /\ last' = ListCall("add_warning", warning, ~In(warning, warnings))
    /\ UNCHANGED <<stages_completed, errors>>

add_error(error) ==
    /\ errors' = IF ~In(error, errors) THEN PyAppend(errors, error) ELSE errors
    /\ last' = ListCall("add_error", error, ~In(error, errors))
    /\ UNCHANGED <<stages_completed, warnings>>

\* A PipelineState with default values.
DefaultState ==
    /\ stages_completed = <<>>
    /\ warnings = <<>>
    /\ errors = <<>>

NoState == DefaultState

\* ------------------------------------------------------------------------
\* ValidationResult (data/validator.py)
\* ------------------------------------------------------------------------

\* The longest warnings or errors list of a ValidationResult.
MaxMessages == 3

\* ValidationResult(): passed, no warnings, no errors.
ValidationResult == [passed |-> TRUE, warnings |-> <<>>, errors |-> <<>>]

ValidationResult_add_warning(msg) ==
    /\ validation_result' =
           [validation_result EXCEPT !.warnings = PyAppend(@, msg)]
    /\ last' = ListCall("ValidationResult.add_warning", msg, TRUE)

\* Mutant of ValidationResult_add_error: passed is left as it was.
ValidationResult_add_error_KeepPassed(msg) ==
    /\ validation_result' =
           [validation_result EXCEPT !.errors = PyAppend(@, msg)]
    /\ last' = ListCall("ValidationResult.add_error", msg, TRUE)

ValidationResult_add_error(msg) ==
    /\ validation_result' =
           [validation_result EXCEPT !.errors = PyAppend(@, msg), !.passed = FALSE]
    /\ last' = ListCall("ValidationResult.add_error", msg, TRUE)

NoValidation == validation_result = ValidationResult

\* ------------------------------------------------------------------------
\* HandoffValidator (contracts/validator.py)
\* ------------------------------------------------------------------------

\* The most handoff files written in a run, and the last second of the clock.
MaxHandoffs == 2
MaxClock == 1

\* The extensions load_schema tries, in its order.
Extensions == <<".schema.yaml", ".schema.json", ".yaml", ".json">>

\* Fields of a payload and the JSON types of their values.
Fields == {"f1", "f2"}
JsonTypes == {"string", "integer"}

\* A schema: the required fields, in the schema's order, and the type each
\* listed property must have.  Each schema file of the model has its own.
SchemaOf(ext) ==
    CASE ext = ".schema.yaml" -> [required |-> <<"f1">>, properties |-> [f \in {"f1"} |-> "string"]]
      [] ext = ".schema.json" -> [required |-> <<"f1", "f2">>, properties |-> EmptyDict]
      [] ext = ".yaml"        -> [required |-> <<>>, properties |-> [f \in {"f2"} |-> "integer"]]
      [] ext = ".json"        -> [required |-> <<"f2">>, properties |-> EmptyDict]

NoSchema == [required |-> <<>>, properties |-> EmptyDict]

\* The contract with schema files, and one with none.
ContractNames == {"c1"}
UnknownContract == "c0"

\* A contracts directory holding the files <contract><ext> for the extensions given.
ContractsDir(exts) ==
    [file \in ContractNames \X exts |-> SchemaOf(file[2])]

\* The contracts directories handoffs are created against.
ContractsDirs ==
    {ContractsDir(exts) : exts \in {{".schema.yaml"}, {".schema.json", ".yaml"},
                                    {".yaml", ".json"}, {".json"}}}

\* Payloads: field -> the type of its value.
Payloads ==
    {EmptyDict, [f \in {"f1"} |-> "string"], [f \in {"f1"} |-> "integer"],
     [f \in Fields |-> "string"], [f \in Fields |-> "integer"]}

FromAgents == {"data", "training"}
ToAgents == {"training"}

\* Mutant of load_schema: the last of the existing files is read.
load_schema_LastMatch(cache, dir, contract_name) ==
    IF contract_name \in DOMAIN cache
    THEN [found |-> TRUE, schema |-> cache[contract_name], schemas |-> cache]
    ELSE LET hits == {k \in DOMAIN Extensions :
                          <<contract_name, Extensions[k]>> \in DOMAIN dir}
         IN  IF hits = {}
             THEN [found |-> FALSE, schema |-> NoSchema, schemas |-> cache]
             ELSE LET k      == CHOOSE i \in hits : \A j \in hits : i >= j
                      schema == dir[<<contract_name, Extensions[k]>>]
                  IN  [found |-> TRUE, schema |-> schema,
                       schemas |-> DictSet(cache, contract_name, schema)]

\* load_schema: the schema, whether one was found, and the cache afterwards.
load_schema(cache, dir, contract_name) ==
    IF contract_name \in DOMAIN cache
    THEN [found |-> TRUE, schema |-> cache[contract_name], schemas |-> cache]
    ELSE LET hits == {k \in DOMAIN Extensions :
                          <<contract_name, Extensions[k]>> \in DOMAIN dir}
         IN  IF hits = {}
             THEN [found |-> FALSE, schema |-> NoSchema, schemas |-> cache]
             ELSE LET k      == CHOOSE i \in hits : \A j \in hits : i <= j
                      schema == dir[<<contract_name, Extensions[k]>>]
                  IN  [found |-> TRUE, schema |-> schema,
                       schemas |-> DictSet(cache, contract_name, schema)]

\* One error per required field that the data lacks, in the schema's order.
basic_validate(schema, data) ==
    LET Missing(field) == field \notin DOMAIN data
        missing == SelectSeq(schema.required, Missing)
    IN  [k \in DOMAIN missing |->
            [path |-> <<missing[k]>>, message |-> "Required field missing"]]

\* jsonschema.validate raises one ValidationError, for the best match: a
\* missing required field (at the root of the instance) before a property of
\* the wrong type.
jsonschema_validate(schema, data) ==
    LET Missing(field) == field \notin DOMAIN data
        missing == SelectSeq(schema.required, Missing)
        wrong   == {f \in DOMAIN data \cap DOMAIN schema.properties :
                        data[f] # schema.properties[f]}
    IN  IF missing # <<>>
        THEN <<[path |-> <<>>, message |-> "is a required property"]>>
        ELSE IF wrong # {}
             THEN <<[path |-> <<CHOOSE f \in wrong : TRUE>>,
                     message |-> "is not of type"]>>
             ELSE <<>>

\* Mutant of validate: every payload is found valid.
validate_AcceptAll(has_jsonschema, schema, data) ==
    [valid |-> TRUE, errors |-> <<>>]

\* validate, once the schema is loaded.
validate(has_jsonschema, schema, data) ==
    LET errs == IF ~has_jsonschema THEN basic_validate(schema, data)
                ELSE jsonschema_validate(schema, data)
    IN  [valid |-> Len(errs) = 0, errors |-> errs]

\* The handoffs directory before anything was written to it.
NoHandoffsDir == [exists |-> FALSE, files |-> EmptyDict, writes |-> 0]

\* The file name "<from_agent>-to-<to_agent>-<timestamp>.yaml": the timestamp
\* has the resolution of a second.
HandoffFileName(from_agent, to_agent, now) ==
    [from_agent |-> from_agent, to_agent |-> to_agent, timestamp |-> now]

\* mkdir(parents=True, exist_ok=True), then open(path, 'w') and yaml.dump.
WriteHandoff(dir, name, handoff) ==
    [exists |-> TRUE,
     files  |-> DictSet(dir.files, name, [handoff |-> handoff, mtime |-> dir.writes + 1]),
     writes |-> dir.writes + 1]

\* The record of a create_handoff call.
HandoffCall(contract_name, from_agent, to_agent, data, outcome, errs) ==
    [op |-> "create_handoff", contract |-> contract_name, from_agent |-> from_agent,
     to_agent |-> to_agent, data |-> data, outcome |-> outcome, errors |-> errs]

create_handoff(contract_name, from_agent, to_agent, data) ==
    LET loaded == load_schema(schemas, contracts_dir, contract_name)
        result == validate(HAS_JSONSCHEMA, loaded.schema, data)
        handoff == [contract |-> contract_name, from_agent |-> from_agent,
                    to_agent |-> to_agent, created_at |-> clock, data |-> data]
    IN  /\ IF ~loaded.found
           THEN /\ last' = HandoffCall(contract_name, from_agent, to_agent, data,
                                       "FileNotFoundError", <<>>)
                /\ UNCHANGED <<schemas, handoffs_dir>>
           ELSE IF ~result.valid
           THEN /\ last' = HandoffCall(contract_name, from_agent, to_agent, data,
                                       "ContractValidationError", result.errors)
                /\ schemas' = loaded.schemas
                /\ UNCHANGED handoffs_dir
           ELSE /\ handoffs_dir.writes < MaxHandoffs
                /\ handoffs_dir' =
                       WriteHandoff(handoffs_dir,
                                    HandoffFileName(from_agent, to_agent, clock), handoff)
                /\ schemas' = loaded.schemas
                /\ last' = HandoffCall(contract_name, from_agent, to_agent, data,
                                       "ok", <<>>)
        /\ UNCHANGED <<HAS_JSONSCHEMA, contracts_dir, clock>>

\* No agent filter (None or the empty string), and no file found (None).
NoAgent == ""
NoHandoffFile == [from_agent |-> "", to_agent |-> "", timestamp |-> 0 - 1]

\* The stem of a handoff file name, split at its hyphens.
Stem(name) == <<name.from_agent, "to", name.to_agent, name.timestamp>>

\* name.startswith(f"{from_agent}-to-")
StartsWithFrom(stem, from_agent) ==
    Len(stem) > 2 /\ SubSeq(stem, 1, 2) = <<from_agent, "to">>

\* f"-to-{to_agent}-" in name
ContainsTo(stem, to_agent) ==
    \E i \in 2..(Len(stem) - 2) : SubSeq(stem, i, i + 1) = <<"to", to_agent>>

\* The files find_latest_handoff keeps.
Matching(dir, from_agent, to_agent) ==
    {name \in DOMAIN dir.files :
        /\ from_agent # NoAgent => StartsWithFrom(Stem(name), from_agent)
        /\ to_agent # NoAgent => ContainsTo(Stem(name), to_agent)}

\* Mutant of find_latest_handoff: the oldest matching file is returned.
find_latest_handoff_Oldest(dir, from_agent, to_agent) ==
    LET matching == Matching(dir, from_agent, to_agent)
    IN  IF ~dir.exists \/ matching = {} THEN NoHandoffFile
        ELSE CHOOSE name \in matching :
                \A other \in matching :
                    dir.files[name].mtime <= dir.files[other].mtime

\* find_latest_handoff(handoffs_dir, from_agent, to_agent): the first of the
\* matching files sorted by modification time, newest first.
find_latest_handoff(dir, from_agent, to_agent) ==
    LET matching == Matching(dir, from_agent, to_agent)
    IN  IF ~dir.exists \/ matching = {} THEN NoHandoffFile
        ELSE CHOOSE name \in matching :
                \A other \in matching :
                    dir.files[name].mtime >= dir.files[other].mtime

NoHandoffs ==
    /\ HAS_JSONSCHEMA = FALSE
    /\ contracts_dir = EmptyDict
    /\ schemas = EmptyDict
    /\ handoffs_dir = NoHandoffsDir
    /\ clock = 0

\* ------------------------------------------------------------------------
\* DatasetSplitter (data/splitter.py)
\* ------------------------------------------------------------------------

\* The most paired images in a dataset, and the most split calls in a run.
MaxImages == 12
MaxRuns == 2

\* split stratifies only when there are more pairs than this.
StratifyAbove == 10

\* Seeds, and (train, val, test) ratios in thousandths: the defaults, a split
\* without a test share, thirds that sum to 0.999, and 0.5/0.5/0.5.
Seeds == {42, 7}
RatioTriples ==
    {<<800, 150, 50>>, <<500, 500, 0>>, <<333, 333, 333>>, <<500, 500, 500>>}

\* The first line of an image's label file, split into fields: the class id,
\* or nothing when the line is blank.
FirstLine(layout, i) ==
    CASE layout = "one class"     -> <<0>>
      [] layout = "three classes" -> <<i % 3>>
      [] layout = "some empty"    -> IF i % 4 = 0 THEN <<>> ELSE <<i % 2>>

Layouts == {"one class", "three classes", "some empty"}

\* What glob('*') lists in raw/: n images with a label file (named 1..n), an
\* image without one, and a file that is not an image.
Listing(n, layout) ==
    [i \in 1..n |-> [name |-> i, image |-> TRUE, labelled |-> TRUE,
                     first_line |-> FirstLine(layout, i)]]
    \o <<[name |-> n + 1, image |-> TRUE, labelled |-> FALSE, first_line |-> <<>>],
         [name |-> n + 2, image |-> FALSE, labelled |-> TRUE, first_line |-> <<0>>]>>

Reversed(x) == [i \in DOMAIN x |-> x[Len(x) + 1 - i]]

\* The data directories split is run on: up to MaxImages pairs, sizes on both
\* sides of the stratification threshold, listed in either order.
ImageCounts == {0, 1, StratifyAbove, StratifyAbove + 1, MaxImages}
RawDirs ==
    UNION {{Listing(n, layout), Reversed(Listing(n, layout))} :
               <<n, layout>> \in ImageCounts \X Layouts}

\* _find_pairs: the images that have a label file, in listing order.
find_pairs(dir) ==
    LET Paired(f) == f.image /\ f.labelled
    IN  SelectSeq(dir, Paired)

\* random.seed(seed): the generator's state is a function of the seed alone.
\* Mutant: the generator is left as it was.
SeedRandom_Unseeded(state, seed) == state

SeedRandom(state, seed) == seed % 251

\* One step of the generator.
NextRandom(state) == (state * 33 + 7) % 251

\* random.shuffle(x): for i in reversed(range(1, len(x))), swap x[i] with
\* x[randbelow(i + 1)].  Gives the shuffled list and the generator's state.
\* ShuffleFrom runs the loop for i from hi down to lo, the upper half of the
\* range first.
RECURSIVE ShuffleFrom(_, _, _, _)
ShuffleFrom(x, hi, lo, state) ==
    IF hi < lo THEN [list |-> x, rng |-> state]
    ELSE IF hi = lo
    THEN LET s2 == NextRandom(state)
             j  == s2 % (hi + 1)
         IN  [list |-> [x EXCEPT ![hi + 1] = x[j + 1], ![j + 1] = x[hi + 1]],
              rng  |-> s2]
    ELSE LET mid == (hi + lo) \div 2
         IN  CHOOSE shuffled \in
                 {ShuffleFrom(upper.list, mid, lo, upper.rng) :
                      upper \in {ShuffleFrom(x, hi, mid + 1, state)}} : TRUE

Shuffle(x, state) == ShuffleFrom(x, Len(x) - 1, 1, state)

\* int(n * ratio), the ratio in thousandths: truncation towards zero.
IntTimes(n, ratio) ==
    IF n * ratio >= 0 THEN (n * ratio) \div 1000 ELSE -((-(n * ratio)) \div 1000)

\* x[lo:hi] of Python: negative indices count from the end, both are clamped.
PyIndex(i, n) == IF i < 0 THEN (IF i + n < 0 THEN 0 ELSE i + n)
                 ELSE IF i > n THEN n ELSE i
PySlice(x, lo, hi) == SubSeq(x, PyIndex(lo, Len(x)) + 1, PyIndex(hi, Len(x)))

\* Mutant of Slices: the end of val is the truncated share of train and val
\* together.
Slices_CumulativeRatio(x, train_ratio, val_ratio) ==
    LET n         == Len(x)
        train_end == IntTimes(n, train_ratio)
        val_end   == IntTimes(n, train_ratio + val_ratio)
    IN  [train |-> PySlice(x, 0, train_end),
         val   |-> PySlice(x, train_end, val_end),
         test  |-> PySlice(x, val_end, n)]

\* The three slices of a shuffled list for the given ratios.
Slices(x, train_ratio, val_ratio) ==
    LET n         == Len(x)
        train_end == IntTimes(n, train_ratio)
        val_end   == train_end + IntTimes(n, val_ratio)
    IN  [train |-> PySlice(x, 0, train_end),
         val   |-> PySlice(x, train_end, val_end),
         test  |-> PySlice(x, val_end, n)]

\* The group of a pair in _stratified_split: the class id of its first line,
\* -1 when the line is blank.
ClassId(pair) == IF pair.first_line # <<>> THEN pair.first_line[1] ELSE -1

\* Mutant of ClassIds: pairs with a blank first line get no group.
ClassIds_DropEmpty(pairs) ==
    LET First(i) == /\ ClassId(pairs[i]) # -1
                    /\ \A j \in 1..(i - 1) : ClassId(pairs[j]) # ClassId(pairs[i])
        firsts   == SelectSeq([i \in DOMAIN pairs |-> i], First)
    IN  [k \in DOMAIN firsts |-> ClassId(pairs[firsts[k]])]

\* The keys of by_class, in the order in which they were inserted: the class
\* id of every pair that is the first of its class.
ClassIds(pairs) ==
    LET First(i) == \A j \in 1..(i - 1) : ClassId(pairs[j]) # ClassId(pairs[i])
        firsts   == SelectSeq([i \in DOMAIN pairs |-> i], First)
    IN  [k \in DOMAIN firsts |-> ClassId(pairs[firsts[k]])]

\* The loop over by_class.items(): shuffle the group, slice it, extend the splits.
RECURSIVE SplitGroups(_, _, _, _, _, _)
SplitGroups(pairs, class_ids, k, train_ratio, val_ratio, acc) ==
    IF k > Len(class_ids) THEN acc
    ELSE LET InGroup(pair) == ClassId(pair) = class_ids[k]
             shuffled == Shuffle(SelectSeq(pairs, InGroup), acc.rng)
             parts    == Slices(shuffled.list, train_ratio, val_ratio)
         IN  SplitGroups(pairs, class_ids, k + 1, train_ratio, val_ratio,
                         [train |-> acc.train \o parts.train,
                          val   |-> acc.val \o parts.val,
                          test  |-> acc.test \o parts.test,
                          rng   |-> shuffled.rng])

\* _stratified_split: the splits, each shuffled, and the generator's state.
stratified_split(pairs, train_ratio, val_ratio, state) ==
    LET grouped == SplitGroups(pairs, ClassIds(pairs), 1, train_ratio, val_ratio,
                               [train |-> <<>>, val |-> <<>>, test |-> <<>>,
                                rng |-> state])
        train   == Shuffle(grouped.train, grouped.rng)
        val     == Shuffle(grouped.val, train.rng)
        test    == Shuffle(grouped.test, val.rng)
    IN  [train |-> train.list, val |-> val.list, test |-> test.list, rng |-> test.rng]

\* _random_split
random_split(pairs, train_ratio, val_ratio, state) ==
    LET shuffled == Shuffle(pairs, state)
        parts    == Slices(shuffled.list, train_ratio, val_ratio)
    IN  [train |-> parts.train, val |-> parts.val, test |-> parts.test,
         rng |-> shuffled.rng]

\* sorted(names): the names below the middle one, sorted, then the names equal
\* to it, then the names above it, sorted.
RECURSIVE SortedNames(_)
SortedNames(names) ==
    IF Len(names) <= 1 THEN names
    ELSE LET x        == names[(Len(names) + 1) \div 2]
             Below(y) == y < x
             Same(y)  == y = x
             Above(y) == x < y
         IN  SortedNames(SelectSeq(names, Below)) \o SelectSeq(names, Same)
                 \o SortedNames(SelectSeq(names, Above))

\* hashlib.md5 of the joined names, as a number: a function of the text alone.
\* DigestFrom takes in the names at places lo..hi, the lower half first.
RECURSIVE DigestFrom(_, _, _, _)
DigestFrom(names, lo, hi, h) ==
    IF hi < lo THEN h
    ELSE IF hi = lo THEN (h * 31 + names[lo]) % 65521
    ELSE LET mid == (hi + lo) \div 2
         IN  CHOOSE digest \in
                 {DigestFrom(names, mid + 1, hi, lower) :
                      lower \in {DigestFrom(names, lo, mid, h)}} : TRUE

Digest(names, h) == DigestFrom(names, 1, Len(names), h)

\* Mutant of compute_hash: the file names are not sorted.
compute_hash_Unsorted(pairs) ==
    Digest([i \in DOMAIN pairs |-> pairs[i].name], 1)

\* _compute_hash
compute_hash(pairs) ==
    LET file_names == SortedNames([i \in DOMAIN pairs |-> pairs[i].name])
    IN  Digest(file_names, 1)

\* The output directory before the first split: it does not exist.
NoOutputDir ==
    [exists |-> FALSE,
     images |-> [split_name \in {"train", "val", "test"} |-> {}],
     labels |-> [split_name \in {"train", "val", "test"} |-> {}],
     data_yaml |-> <<>>]

Names(pairs) == [i \in DOMAIN pairs |-> pairs[i].name]
NameSet(pairs) == {pairs[i].name : i \in DOMAIN pairs}

\* _infer_class_names, in a project whose config.yaml lists no classes: the
\* names of an existing data.yaml, else the sorted class ids of the labels.
infer_class_names(pairs, out) ==
    IF out.data_yaml # <<>> /\ out.data_yaml[1].names # <<>>
    THEN out.data_yaml[1].names
    ELSE LET HasClass(pair) == pair.first_line # <<>>
             with_class == SelectSeq(pairs, HasClass)
             ids == {with_class[i].first_line[1] : i \in DOMAIN with_class}
             \* sorted(class_ids)
             Rank(c) == Cardinality({d \in ids : d < c}) + 1
         IN  [k \in 1..Cardinality(ids) |-> CHOOSE c \in ids : Rank(c) = k]

\* _setup_output_dirs: mkdir(parents=True, exist_ok=True) of the six directories.
setup_output_dirs(out) == [out EXCEPT !.exists = TRUE]

\* _copy_splits: copy every image and its label into its split's directories;
\* what is already there stays, a file of the same name is replaced.
copy_splits(out, splits) ==
    [out EXCEPT
        !.images = [split_name \in {"train", "val", "test"} |->
                        out.images[split_name] \cup NameSet(splits[split_name])],
        !.labels = [split_name \in {"train", "val", "test"} |->
                        out.labels[split_name] \cup NameSet(splits[split_name])]]

\* _create_data_yaml: data.yaml is written anew.
create_data_yaml(out, class_names, splits) ==
    [out EXCEPT !.data_yaml =
        <<[names |-> class_names, nc |-> Len(class_names),
           train |-> Len(splits.train), val |-> Len(splits.val),
           test |-> Len(splits.test)]>>]

\* Mutant of ratios_valid: every triple is accepted.
ratios_valid_AcceptAll(train_ratio, val_ratio, test_ratio) == TRUE

\* The ratio check of split: abs(total - 1.0) > 0.001 raises.
ratios_valid(train_ratio, val_ratio, test_ratio) ==
    LET total == train_ratio + val_ratio + test_ratio
        diff  == IF total >= 1000 THEN total - 1000 ELSE 1000 - total
    IN  ~(diff > 1)

\* The record of a split call: its arguments, what it raised ("ok": it
\* returned), the splits it made and the dict it returned.
SplitCall(train_ratio, val_ratio, test_ratio, seed, stratify, outcome, splits, result) ==
    [op |-> "split", train_ratio |-> train_ratio, val_ratio |-> val_ratio,
     test_ratio |-> test_ratio, seed |-> seed, stratify |-> stratify,
     outcome |-> outcome, splits |-> splits, result |-> result]

NoSplits == [train |-> <<>>, val |-> <<>>, test |-> <<>>]
NoSplitResult ==
    [train |-> 0, val |-> 0, test |-> 0, total |-> 0, classes |-> <<>>,
     dataset_hash |-> 0]

\* get_split_stats: the number of files in each images directory, 0 for a
\* directory that does not exist.
get_split_stats(out) ==
    LET Count(split_name) ==
            IF out.exists THEN Cardinality(out.images[split_name]) ELSE 0
    IN  [train |-> Count("train"), val |-> Count("val"), test |-> Count("test"),
         total |-> Count("train") + Count("val") + Count("test"),
         data_yaml_exists |-> out.data_yaml # <<>>]

split(train_ratio, val_ratio, test_ratio, seed, stratify) ==
    LET Returns(outcome, splits, result) ==
            LET call == SplitCall(train_ratio, val_ratio, test_ratio, seed, stratify,
                                  outcome, splits, result)
            IN  runs' = Append(runs, call) /\ last' = call
        seeded == SeedRandom(rng, seed)
        pairs  == find_pairs(raw_dir)
    IN  /\ Len(runs) < MaxRuns
        /\ UNCHANGED raw_dir
        /\ IF ~ratios_valid(train_ratio, val_ratio, test_ratio)
           THEN /\ Returns("ValueError: Ratios must sum to 1.0", NoSplits, NoSplitResult)
                /\ UNCHANGED <<output_dir, rng>>
           ELSE IF pairs = <<>>
           THEN /\ Returns("ValueError: No image-label pairs found", NoSplits,
                           NoSplitResult)
                /\ rng' = seeded
                /\ UNCHANGED output_dir
           ELSE LET class_names == infer_class_names(pairs, output_dir)
                    made   == IF stratify /\ Len(pairs) > StratifyAbove
                              THEN stratified_split(pairs, train_ratio, val_ratio, seeded)
                              ELSE random_split(pairs, train_ratio, val_ratio, seeded)
                    splits == [train |-> Names(made.train), val |-> Names(made.val),
                               test |-> Names(made.test)]
                IN  /\ output_dir' =
                           create_data_yaml(
                               copy_splits(setup_output_dirs(output_dir), made),
                               class_names, made)
                    /\ rng' = made.rng
                    /\ Returns("ok", splits,
                               [train |-> Len(made.train), val |-> Len(made.val),
                                test |-> Len(made.test), total |-> Len(pairs),
                                classes |-> class_names,
                                dataset_hash |-> compute_hash(pairs)])

NoSplitter ==
    /\ raw_dir = <<>>
    /\ output_dir = NoOutputDir
    /\ rng = 0
    /\ runs = <<>>

\* ------------------------------------------------------------------------
\* The pipeline state document and its file (state.py)
\* ------------------------------------------------------------------------

\* An Optional[str] field: None is the empty sequence, a value a sequence of one.
None == <<>>

\* The fields of PipelineState, in the order yaml.dump writes its keys (sorted).
StateKeys ==
    <<"artifacts", "current_stage", "errors", "experiments", "initialized_at",
      "last_updated", "stages_completed", "warnings", "workflow_artifacts",
      "workflow_progress">>

\* PipelineState(initialized_at=...): every other field at its default.
\* artifacts stands for artifacts.model.path.
PipelineState(initialized_at) ==
    [artifacts |-> None, current_stage |-> "uninitialized", errors |-> <<>>,
     experiments |-> <<>>, initialized_at |-> initialized_at,
     last_updated |-> None, stages_completed |-> <<>>, warnings |-> <<>>,
     workflow_artifacts |-> EmptyDict, workflow_progress |-> EmptyDict]

\* yaml.dump(self.model_dump()): one line per key, keys in sorted order.
yaml_dump(data) ==
    [i \in 1..Len(StateKeys) |-> <<StateKeys[i], data[StateKeys[i]]>>]

\* yaml.safe_load: the mapping of the keys the lines hold (none: None).
yaml_safe_load(lines) ==
    [k \in {lines[i][1] : i \in DOMAIN lines} |->
        lines[CHOOSE i \in DOMAIN lines : lines[i][1] = k][2]]

\* cls(**data): a field missing from data takes its default.
FromData(data) ==
    [k \in DOMAIN PipelineState(None) |->
        IF k \in DOMAIN data THEN data[k] ELSE PipelineState(None)[k]]

\* The state file when it does not exist. A file is garbled when its text is
\* not that of whole lines of one document: it ends inside a line, or text of
\* another document follows.
NoFile == [exists |-> FALSE, lines |-> <<>>, garbled |-> FALSE]

\* Mutant of load_raises: a missing file is an error too.
load_raises_OnMissing(file) == ~file.exists \/ file.garbled

\* PipelineState.load(state_path) raises: yaml.safe_load cannot parse the
\* text, or what it parsed is not a mapping of the fields.
load_raises(file) == file.exists /\ file.garbled

\* PipelineState.load(state_path), when it returns.
load(file) ==
    IF ~file.exists THEN PipelineState(None)
    ELSE LET data == yaml_safe_load(file.lines)
         IN  IF DOMAIN data = {} THEN PipelineState(None) ELSE FromData(data)

\* Mutant of open_w: the file is opened without being truncated.
open_w_NoTruncate(file) == [file EXCEPT !.exists = TRUE]

\* open(state_path, "w"): the file is created or truncated.
open_w(file) == [exists |-> TRUE, lines |-> <<>>, garbled |-> FALSE]

\* Mutant of write_lines: lines already in the file are kept.
write_lines_KeepExisting(file, lines) ==
    [exists |-> TRUE, garbled |-> file.garbled,
     lines |-> [i \in 1..(IF Len(file.lines) > Len(lines) THEN Len(file.lines)
                          ELSE Len(lines)) |->
                   IF i <= Len(file.lines) THEN file.lines[i] ELSE lines[i]]]

\* The writes of an open file reach the disk from its start: they replace what
\* is at their position and leave the rest.
write_lines(file, lines) ==
    [exists |-> TRUE, garbled |-> file.garbled,
     lines |-> [i \in 1..(IF Len(file.lines) > Len(lines) THEN Len(file.lines)
                          ELSE Len(lines)) |->
                   IF i <= Len(lines) THEN lines[i] ELSE file.lines[i]]]

\* save, first statement: self.last_updated = datetime.utcnow().isoformat()
stamp(state, now) == [state EXCEPT !.last_updated = <<now>>]

\* The file after text was written into it that left it garbled.
garble(file) == [file EXCEPT !.garbled = TRUE]

\* The stage names of a list, in order, each once.
RECURSIVE Merged(_, _)
Merged(list, more) ==
    IF more = <<>> THEN list
    ELSE Merged(IF In(Head(more), list) THEN list ELSE Append(list, Head(more)),
                Tail(more))

\* Mutant of saved_document: the stages the file holds are merged in.
saved_document_Merged(state, on_disk) ==
    [state EXCEPT !.stages_completed = Merged(on_disk.stages_completed, @)]

\* The document save writes: self.model_dump(), whatever the file holds.
saved_document(state, on_disk) == state

\* PipelineState.save(state_path), run to its end.
save(file, state, now) ==
    write_lines(open_w(file),
                yaml_dump(saved_document(stamp(state, now), load(file))))

\* self.stages_completed.append(stage), with no membership test (cli.py).
append_stage(state, stage) ==
    [state EXCEPT !.stages_completed = PyAppend(@, stage)]

\* PipelineState.complete_stage(stage), on a state document.
state_complete_stage(state, stage) ==
    IF ~In(stage, state.stages_completed) THEN append_stage(state, stage)
    ELSE state

NoProject ==
    /\ state_file = NoFile
    /\ procs = EmptyDict

\* ------------------------------------------------------------------------
\* The YOLO annotation format check (data/validator.py)
\* ------------------------------------------------------------------------

\* A field of a label line, as text: an integer literal, a decimal literal
\* (its value in thousandths), "nan", or a word.
IntText(n) == [kind |-> "int", value |-> n]
DecText(t) == [kind |-> "dec", value |-> t]
NanText    == [kind |-> "nan", value |-> 0]
WordText   == [kind |-> "word", value |-> 0]

\* int(text) raises ValueError unless the text is an integer literal.
int_raises(text) == text.kind # "int"
py_int(text) == text.value

\* float(text) raises ValueError for a word; the float is its value in
\* thousandths, or nan.
float_raises(text) == text.kind = "word"
py_float(text) ==
    [nan |-> text.kind = "nan",
     v   |-> IF text.kind = "int" THEN text.value * 1000 ELSE text.value]

\* lo <= x <= hi and lo < x <= hi of floats, the limits in thousandths; every
\* comparison with nan is false.
Between(lo, x, hi) == ~x.nan /\ lo <= x.v /\ x.v <= hi

\* Mutant of Within: the lower limit is allowed.
Within_Closed(lo, x, hi) == ~x.nan /\ lo <= x.v /\ x.v <= hi

Within(lo, x, hi) == ~x.nan /\ lo < x.v /\ x.v <= hi

\* An entry of invalid_files.
Invalid(name, line_num, why) == [name |-> name, line_num |-> line_num, why |-> why]

\* Does the line count as an annotation: five fields that all parse.
Parses(parts) ==
    /\ Len(parts) = 5
    /\ ~int_raises(parts[1])
    /\ \A i \in 2..5 : ~float_raises(parts[i])

\* The body of the loop over the lines, for line.strip().split() of one line:
\* the entries it appends to invalid_files.
LineEntries(name, line_num, parts) ==
    IF parts = <<>> THEN <<>>
    ELSE IF Len(parts) # 5 THEN <<Invalid(name, line_num, "Expected 5 values")>>
    ELSE IF ~Parses(parts) THEN <<Invalid(name, line_num, "Parse error")>>
    ELSE LET class_id == py_int(parts[1])
             x == py_float(parts[2])
             y == py_float(parts[3])
             w == py_float(parts[4])
             h == py_float(parts[5])
         IN  (IF ~(Between(0, x, 1000) /\ Between(0, y, 1000))
              THEN <<Invalid(name, line_num, "Center out of [0,1] range")>> ELSE <<>>)
             \o (IF ~(Within(0, w, 1000) /\ Within(0, h, 1000))
                 THEN <<Invalid(name, line_num, "Size out of (0,1] range")>> ELSE <<>>)
             \o (IF class_id < 0
                 THEN <<Invalid(name, line_num, "Negative class ID")>> ELSE <<>>)

\* The loop over the label files, from file k on: invalid_files, empty_files
\* and total_annotations.  A file that cannot be opened or read gives one
\* "File error" entry with line number 0.
RECURSIVE ScanLabels(_, _, _)
ScanLabels(label_files, k, acc) ==
    IF k > Len(label_files) THEN acc
    ELSE LET file == label_files[k]
             Entries(i) == LineEntries(file.name, i, file.lines[i])
             invalid == IF Len(file.lines) = 2 THEN Entries(1) \o Entries(2)
                        ELSE IF Len(file.lines) = 1 THEN Entries(1) ELSE <<>>
             counted == Cardinality({i \in DOMAIN file.lines : Parses(file.lines[i])})
         IN  ScanLabels(label_files, k + 1,
                 IF ~file.readable
                 THEN [acc EXCEPT !.invalid_files =
                           @ \o <<Invalid(file.name, 0, "File error")>>]
                 ELSE IF file.lines = <<>>
                 THEN [acc EXCEPT !.empty_files = @ + 1]
                 ELSE [acc EXCEPT !.invalid_files = @ \o invalid,
                                  !.total_annotations = @ + counted])

\* result.add_error(msg) and result.add_warning(msg) on a result passed along.
result_add_error(result, msg) ==
    [result EXCEPT !.errors = PyAppend(@, msg), !.passed = FALSE]
result_add_warning(result, msg) ==
    [result EXCEPT !.warnings = PyAppend(@, msg)]

\* _validate_yolo_format(result, label_files)
validate_yolo_format(label_files) ==
    LET scan == ScanLabels(label_files, 1,
                    [invalid_files |-> <<>>, empty_files |-> 0,
                     total_annotations |-> 0])
        checked == IF scan.invalid_files # <<>>
                   THEN result_add_error(validation_result,
                            [text  |-> "annotation format errors found",
                             count |-> Len(scan.invalid_files),
                             first |-> PySlice(scan.invalid_files, 0, 3)])
                   ELSE validation_result
        warned  == IF scan.empty_files * 2 > Len(label_files)
                   THEN result_add_warning(checked,
                            [text  |-> "empty label files",
                             count |-> scan.empty_files])
                   ELSE checked
    IN  /\ validation_result' = warned
        /\ last' = [op |-> "_validate_yolo_format", label_files |-> label_files,
                    before |-> validation_result,
                    invalid_files |-> scan.invalid_files,
                    total_annotations |-> scan.total_annotations,
                    empty_label_files |-> scan.empty_files]

\* ------------------------------------------------------------------------
\* The experiments of the pipeline state (state.py)
\* ------------------------------------------------------------------------

\* Experiment(id=..., status=...); the other fields keep their defaults.
Experiment(id, status) == [id |-> id, status |-> status]

\* state.add_experiment(experiment)
add_experiment(state, experiment) ==
    [state EXCEPT !.experiments = PyAppend(@, experiment)]

\* state.get_experiment(experiment_id): the first experiment of the list with
\* the id, as <<experiment>>, or None.
get_experiment(state, experiment_id) ==
    LET hits == {i \in DOMAIN state.experiments :
                     state.experiments[i].id = experiment_id}
    IN  IF hits = {} THEN None
        ELSE <<state.experiments[CHOOSE i \in hits : \A j \in hits : i <= j]>>

\* ------------------------------------------------------------------------
\* The image checks of the data validator (data/validator.py, data/scanner.py)
\* ------------------------------------------------------------------------

\* Thresholds of DataValidator.
MIN_IMAGES == 100
MIN_IMAGE_SIZE == 320
MAX_IMAGE_SIZE == 4096

\* An image file of raw/ with a supported extension: can it be opened and
\* verified, and its size.
ImageFile(name, opens, size) == [name |-> name, opens |-> opens, size |-> size]

\* scan_directory: total_images counts the files that open, corrupt lists the
\* others, sizes are those of the files that open.
scan_directory(files) ==
    LET Opens(f)   == f.opens
        Corrupt(f) == ~f.opens
        images  == SelectSeq(files, Opens)
        corrupt == SelectSeq(files, Corrupt)
    IN  [total_images |-> Len(images),
         images       |-> [i \in DOMAIN images |-> images[i].name],
         corrupt      |-> [i \in DOMAIN corrupt |-> corrupt[i].name],
         sizes        |-> [i \in DOMAIN images |-> images[i].size]]

Least(S) == CHOOSE x \in S : \A y \in S : x <= y
Greatest(S) == CHOOSE x \in S : \A y \in S : x >= y

\* corrupt_count > scan['total_images'] * 0.1
corrupt_is_error(scan) == Len(scan.corrupt) * 10 > scan.total_images

\* The checks of _validate_images after the scan: the messages added, in
\* order, each with the list it goes to.
ImageMessages(scan) ==
    LET widths  == {scan.sizes[i][1] : i \in DOMAIN scan.sizes}
        heights == {scan.sizes[i][2] : i \in DOMAIN scan.sizes}
        min_dim == Least({Least(widths), Least(heights)})
        max_dim == Greatest({Greatest(widths), Greatest(heights)})
        \* w / h < 0.25 or w / h > 4.0 for some image with h > 0
        extreme == \E i \in DOMAIN scan.sizes :
                       /\ scan.sizes[i][2] > 0
                       /\ \/ 4 * scan.sizes[i][1] < scan.sizes[i][2]
                          \/ scan.sizes[i][1] > 4 * scan.sizes[i][2]
    IN  IF scan.total_images = 0
        THEN <<[to |-> "errors", text |-> "No images found in data/raw/"]>>
        ELSE (IF scan.total_images < MIN_IMAGES
              THEN <<[to |-> "warnings", text |-> "Only N images found"]>> ELSE <<>>)
             \o (IF scan.corrupt = <<>> THEN <<>>
                 ELSE IF corrupt_is_error(scan)
                 THEN <<[to |-> "errors", text |-> "corrupt images found",
                         count |-> Len(scan.corrupt)]>>
                 ELSE <<[to |-> "warnings", text |-> "corrupt images found",
                         count |-> Len(scan.corrupt),
                         sample |-> PySlice(scan.corrupt, 0, 3)]>>)
             \o (IF min_dim < MIN_IMAGE_SIZE
                 THEN <<[to |-> "warnings", text |-> "Some images smaller"]>> ELSE <<>>)
             \o (IF max_dim > MAX_IMAGE_SIZE
                 THEN <<[to |-> "warnings", text |-> "Some images larger"]>> ELSE <<>>)
             \o (IF extreme
                 THEN <<[to |-> "warnings", text |-> "Extreme aspect ratios"]>>
                 ELSE <<>>)

RECURSIVE AddMessages(_, _, _)
AddMessages(result, messages, k) ==
    IF k > Len(messages) THEN result
    ELSE AddMessages(IF messages[k].to = "errors"
                     THEN result_add_error(result, messages[k])
                     ELSE result_add_warning(result, messages[k]),
                     messages, k + 1)

\* _validate_images(result) for a raw directory: <<>> when it does not exist,
\* else <<its image files>>.
validate_images(images_dir) ==
    LET scan == scan_directory(images_dir[1])
    IN  IF images_dir = <<>>
        THEN /\ validation_result' =
                    result_add_error(validation_result,
                        [to |-> "errors", text |-> "Images directory not found"])
             /\ last' = [op |-> "_validate_images", images_dir |-> images_dir,
                         before |-> validation_result, scan |-> <<>>]
        ELSE /\ validation_result' =
                    AddMessages(validation_result, ImageMessages(scan), 1)
             /\ last' = [op |-> "_validate_images", images_dir |-> images_dir,
                         before |-> validation_result, scan |-> <<scan>>]

\* ------------------------------------------------------------------------
\* The next command (cli.py)
\* ------------------------------------------------------------------------

\* The branch of croak next that prints: the stage whose step it suggests, or
\* "complete" for 'Pipeline complete!'.
next_report(state) ==
    IF state.current_stage = "uninitialized" THEN "uninitialized"
    ELSE IF \/ state.current_stage = "data_preparation"
            \/ ~In("data_preparation", state.stages_completed)
    THEN "data_preparation"
    ELSE IF \/ state.current_stage = "training"
            \/ ~In("training", state.stages_completed)
    THEN "training"
    ELSE IF \/ state.current_stage = "evaluation"
            \/ ~In("evaluation", state.stages_completed)
    THEN "evaluation"
    ELSE IF \/ state.current_stage = "deployment"
            \/ ~In("deployment", state.stages_completed)
    THEN "deployment"
    ELSE "complete"

\* ------------------------------------------------------------------------
\* Specification of the workflow executor
\* ------------------------------------------------------------------------

NoCall == Call("init", "", "", "ok", NoResult)

NotWorkflow == <<stateVars, validationVars, handoffVars, splitterVars, projectVars>>

InitWorkflow ==
    /\ \E w \in WorkflowDefinitions(MaxSteps) : workflows = [i \in {"w1"} |-> w]
    /\ workflow_progress = EmptyDict
    /\ workflow_artifacts = EmptyDict
    /\ NoState /\ NoValidation /\ NoHandoffs /\ NoSplitter /\ NoProject
    /\ last = NoCall

CompleteStep ==
    /\ \E w \in DOMAIN workflows, s \in StepIds, a \in ArtifactArgs :
           complete_step(w, s, a)
    /\ UNCHANGED NotWorkflow

\* A call that names a workflow with no definition on disk.
CompleteStepUnknown ==
    /\ \E s \in {IdOrder[1]} : complete_step(UnknownWorkflow, s, "None")
    /\ UNCHANGED NotWorkflow

ResetWorkflow ==
    /\ \E w \in DOMAIN workflows : reset_workflow(w)
    /\ UNCHANGED NotWorkflow

GetWorkflowStatus ==
    \E w \in DOMAIN workflows :
        /\ last' = Call("get_workflow_status", w, "", "ok", NoResult)
        /\ UNCHANGED <<workflowVars, NotWorkflow>>

\* The step files are all in place, or the steps directory was removed after
\* the definition was loaded.
ValidateWorkflow ==
    \E w \in DOMAIN workflows : \E missing_files \in {{}, DOMAIN workflows[w].steps} :
        /\ last' = Call("validate_workflow", w, "", "ok",
                        validate_workflow(workflows[w], missing_files))
        /\ UNCHANGED <<workflowVars, NotWorkflow>>

ValidateUnknown ==
    /\ last' = Call("validate_workflow", UnknownWorkflow, "", "ok", WorkflowNotFound)
    /\ UNCHANGED <<workflowVars, NotWorkflow>>

NextWorkflow ==
    \/ CompleteStep
    \/ CompleteStepUnknown
    \/ ResetWorkflow
    \/ GetWorkflowStatus
    \/ ValidateWorkflow
    \/ ValidateUnknown

SpecWorkflow == InitWorkflow /\ [][NextWorkflow]_vars

\* ------------------------------------------------------------------------
\* Specification of the Workflow methods as functions of their argument
\* ------------------------------------------------------------------------

InitWorkflowDef ==
    /\ \E w \in WorkflowDefinitions(MaxDefinitionSteps) :
           workflows = [i \in {"w1"} |-> w]
    /\ workflow_progress = EmptyDict
    /\ workflow_artifacts = EmptyDict
    /\ NoState /\ NoValidation /\ NoHandoffs /\ NoSplitter /\ NoProject
    /\ last = NoCall

GetNextStep ==
    /\ last.op = "init"
    /\ \E w \in DOMAIN workflows, completed \in CompletedLists :
           last' = Call("get_next_step", w, "", "ok",
                        [completed |-> completed,
                         next_step |-> get_next_step(workflows[w], completed)])
    /\ UNCHANGED <<workflowVars, NotWorkflow>>

GetProgress ==
    /\ last.op = "init"
    /\ \E w \in DOMAIN workflows, completed \in CompletedLists :
           last' = Call("get_progress", w, "", "ok",
                        [completed |-> completed,
                         progress  |-> get_progress(workflows[w], completed)])
    /\ UNCHANGED <<workflowVars, NotWorkflow>>

NextWorkflowDef == GetNextStep \/ GetProgress

SpecWorkflowDef == InitWorkflowDef /\ [][NextWorkflowDef]_vars

\* ------------------------------------------------------------------------
\* Specification of the PipelineState lists
\* ------------------------------------------------------------------------

NoWorkflows ==
    /\ workflows = EmptyDict
    /\ workflow_progress = EmptyDict
    /\ workflow_artifacts = EmptyDict

NotState == <<workflowVars, validationVars, handoffVars, splitterVars, projectVars>>

InitState ==
    /\ DefaultState
    /\ NoWorkflows /\ NoValidation /\ NoHandoffs /\ NoSplitter /\ NoProject
    /\ last = ListCall("init", "", FALSE)

CompleteStage ==
    /\ \E stage \in StageNames : complete_stage(stage)
    /\ UNCHANGED NotState

AddWarning ==
    /\ \E warning \in Messages : add_warning(warning)
    /\ UNCHANGED NotState

AddError ==
    /\ \E error \in Messages : add_error(error)
    /\ UNCHANGED NotState

NextState == CompleteStage \/ AddWarning \/ AddError

SpecState == InitState /\ [][NextState]_vars

\* ------------------------------------------------------------------------
\* Specification of a ValidationResult
\* ------------------------------------------------------------------------

NotValidation == <<workflowVars, stateVars, handoffVars, splitterVars, projectVars>>

InitValidation ==
    /\ validation_result = ValidationResult
    /\ NoWorkflows /\ NoState /\ NoHandoffs /\ NoSplitter /\ NoProject
    /\ last = ListCall("init", "", FALSE)

ValidationAddWarning ==
    /\ Len(validation_result.warnings) < MaxMessages
    /\ \E msg \in Messages : ValidationResult_add_warning(msg)
    /\ UNCHANGED NotValidation

ValidationAddError ==
    /\ Len(validation_result.errors) < MaxMessages
    /\ \E msg \in Messages : ValidationResult_add_error(msg)
    /\ UNCHANGED NotValidation

NextValidation == ValidationAddWarning \/ ValidationAddError

SpecValidation == InitValidation /\ [][NextValidation]_vars

\* ------------------------------------------------------------------------
\* Specification of the handoff validator
\* ------------------------------------------------------------------------

NotHandoff == <<workflowVars, stateVars, validationVars, splitterVars, projectVars>>

InitHandoff ==
    /\ HAS_JSONSCHEMA \in BOOLEAN
    /\ contracts_dir \in ContractsDirs
    /\ schemas = EmptyDict
    /\ handoffs_dir = NoHandoffsDir
    /\ clock = 0
    /\ NoWorkflows /\ NoState /\ NoValidation /\ NoSplitter /\ NoProject
    /\ last = [op |-> "init"]

CreateHandoff ==
    /\ \E contract_name \in ContractNames \cup {UnknownContract},
          from_agent \in FromAgents, to_agent \in ToAgents, data \in Payloads :
           create_handoff(contract_name, from_agent, to_agent, data)
    /\ UNCHANGED NotHandoff

\* A second passes.
Tick ==
    /\ clock < MaxClock
    /\ clock' = clock + 1
    /\ UNCHANGED <<HAS_JSONSCHEMA, contracts_dir, schemas, handoffs_dir, last>>
    /\ UNCHANGED NotHandoff

NextHandoff == CreateHandoff \/ Tick

SpecHandoff == InitHandoff /\ [][NextHandoff]_vars

\* ------------------------------------------------------------------------
\* Specification of the handoff validator with its queries
\* ------------------------------------------------------------------------

\* Payloads: one with every field, one with none.
QueryPayloads == {[f \in Fields |-> "string"], EmptyDict}

CreateQueryHandoff ==
    /\ \E contract_name \in ContractNames \cup {UnknownContract},
          from_agent \in FromAgents, to_agent \in ToAgents,
          data \in QueryPayloads :
           create_handoff(contract_name, from_agent, to_agent, data)
    /\ UNCHANGED NotHandoff

\* validator.load_schema(contract_name)
LoadSchema ==
    /\ \E contract_name \in ContractNames \cup {UnknownContract} :
          LET loaded == load_schema(schemas, contracts_dir, contract_name)
          IN  /\ schemas' = loaded.schemas
              /\ last' = [op |-> "load_schema", contract |-> contract_name,
                          outcome |-> IF loaded.found THEN "ok"
                                      ELSE "FileNotFoundError",
                          schema |-> loaded.schema]
    /\ UNCHANGED <<HAS_JSONSCHEMA, contracts_dir, handoffs_dir, clock>>
    /\ UNCHANGED NotHandoff

\* validator.validate(contract_name, data)
Validate ==
    /\ \E contract_name \in ContractNames \cup {UnknownContract},
          data \in QueryPayloads :
          LET loaded == load_schema(schemas, contracts_dir, contract_name)
          IN  /\ schemas' = loaded.schemas
              /\ last' = [op |-> "validate", contract |-> contract_name,
                          data |-> data,
                          outcome |-> IF loaded.found THEN "ok"
                                      ELSE "FileNotFoundError",
                          result |-> IF loaded.found
                                     THEN validate(HAS_JSONSCHEMA, loaded.schema,
                                                   data)
                                     ELSE [valid |-> FALSE, errors |-> <<>>]]
    /\ UNCHANGED <<HAS_JSONSCHEMA, contracts_dir, handoffs_dir, clock>>
    /\ UNCHANGED NotHandoff

\* The agent filters find_latest_handoff is called with: none, the agents
\* handoffs are created from, and to, and an agent no handoff is created to.
FromFilters == {NoAgent} \cup FromAgents
ToFilters == {NoAgent, "data"} \cup ToAgents

FindLatestHandoff ==
    /\ \E from_agent \in FromFilters, to_agent \in ToFilters :
          last' = [op |-> "find_latest_handoff", from_agent |-> from_agent,
                   to_agent |-> to_agent,
                   result |-> find_latest_handoff(handoffs_dir, from_agent,
                                                  to_agent)]
    /\ UNCHANGED handoffVars
    /\ UNCHANGED NotHandoff

NextHandoffQueries ==
    \/ CreateQueryHandoff \/ Tick \/ FindLatestHandoff \/ LoadSchema
    \/ Validate

SpecHandoffQueries == InitHandoff /\ [][NextHandoffQueries]_vars

\* ------------------------------------------------------------------------
\* Specification of the dataset splitter
\* ------------------------------------------------------------------------

NotSplitter == <<workflowVars, stateVars, validationVars, handoffVars, projectVars>>

\* The generator is in one of two states when the first split is called.
InitSplitter ==
    /\ raw_dir \in RawDirs
    /\ output_dir = NoOutputDir
    /\ rng \in {0, 1}
    /\ runs = <<>>
    /\ NoWorkflows /\ NoState /\ NoValidation /\ NoHandoffs /\ NoProject
    /\ last = [op |-> "init"]

Split ==
    /\ \E ratios \in RatioTriples, seed \in Seeds, stratify \in BOOLEAN :
           split(ratios[1], ratios[2], ratios[3], seed, stratify)
    /\ UNCHANGED NotSplitter

NextSplitter == Split

SpecSplitter == InitSplitter /\ [][NextSplitter]_vars

\* ------------------------------------------------------------------------
\* Specification of the splitter on the dataset of the tests
\* ------------------------------------------------------------------------

\* The dataset of tests/test_data.py: 100 images, each with a label file whose
\* class cycles through three classes.
ScenarioImages == 100
DefaultRatios == <<800, 150, 50>>
DefaultSeed == 42

\* Datasets of that kind, of the size of the tests and a little smaller.
ScenarioCounts == (ScenarioImages - 3)..ScenarioImages
ScenarioDirs ==
    UNION {{Listing(n, "three classes"), Reversed(Listing(n, "three classes"))} :
               n \in ScenarioCounts}

InitSplitScenario ==
    /\ raw_dir \in ScenarioDirs
    /\ output_dir = NoOutputDir
    /\ rng \in {0, 1}
    /\ runs = <<>>
    /\ NoWorkflows /\ NoState /\ NoValidation /\ NoHandoffs /\ NoProject
    /\ last = [op |-> "init"]

\* splitter.split(), with the default ratios, for a seed and with or without
\* stratification.
SplitScenario ==
    /\ \E seed \in {DefaultSeed} \cup Seeds, stratify \in BOOLEAN :
           split(DefaultRatios[1], DefaultRatios[2], DefaultRatios[3], seed,
                 stratify)
    /\ UNCHANGED NotSplitter

NextSplitScenario == SplitScenario

SpecSplitScenario == InitSplitScenario /\ [][NextSplitScenario]_vars

\* ------------------------------------------------------------------------
\* Specification of the commands over the state file (cli.py, trainer.py)
\* ------------------------------------------------------------------------

\* The terminals commands are started from; each runs one command at a time.
Procs == {"p1", "p2"}

\* The number of commands started in all.
MaxCommands == 2

\* The time of croak init and the time of the commands after it.
InitTime == 0
CommandTime == 1

\* A terminal with no command running, after it started some.
Idle(started) ==
    [command |-> "none", pc |-> "idle", state |-> PipelineState(None),
     replaced |-> PipelineState(None), then |-> "idle", started |-> started]

\* A command at position pc holding an in-memory state; then is where it goes
\* once its save is done.
Running(proc, command, pc, state, then) ==
    [command |-> command, pc |-> pc, state |-> state,
     replaced |-> PipelineState(None), then |-> then, started |-> proc.started]

\* The record of a step; for the end of a save, saved is the state saved and
\* replaced the document a load gave before the save opened the file.
ProjectCall(op, p, command, outcome, saved, replaced) ==
    [op |-> op, proc |-> p, command |-> command, outcome |-> outcome,
     saved |-> saved, replaced |-> replaced]

\* The number of commands started so far.
RECURSIVE StartedBy(_)
StartedBy(ps) ==
    IF ps = {} THEN 0
    ELSE LET p == CHOOSE q \in ps : TRUE
         IN  procs[p].started + StartedBy(ps \ {p})

NotProject ==
    <<workflowVars, stateVars, validationVars, splitterVars,
      HAS_JSONSCHEMA, contracts_dir, schemas, handoffs_dir>>

CanStart(p) == procs[p].pc = "idle" /\ StartedBy(Procs) < MaxCommands

Started(p) == [procs[p] EXCEPT !.started = @ + 1]

\* A step of p that leaves the state file alone.
ProcStep(p, rec, op, command, outcome) ==
    /\ procs' = [procs EXCEPT ![p] = rec]
    /\ last' = ProjectCall(op, p, command, outcome, PipelineState(None),
                           PipelineState(None))
    /\ UNCHANGED <<state_file, clock>>

\* A step of p that writes the state file.
FileStep(p, rec, file, op, command, outcome) ==
    /\ procs' = [procs EXCEPT ![p] = rec]
    /\ state_file' = file
    /\ last' = ProjectCall(op, p, command, outcome,
                           IF op = "save_close" THEN procs[p].state
                           ELSE PipelineState(None),
                           IF op = "save_close" THEN procs[p].replaced
                           ELSE PipelineState(None))
    /\ UNCHANGED clock

\* croak init has run (or the state file was removed afterwards).
InitProject ==
    /\ clock = CommandTime
    /\ state_file \in {NoFile,
                       save(NoFile, PipelineState(<<InitTime>>), InitTime)}
    /\ procs = [p \in Procs |-> Idle(0)]
    /\ NoWorkflows /\ NoState /\ NoValidation /\ NoSplitter
    /\ HAS_JSONSCHEMA = FALSE
    /\ contracts_dir = EmptyDict
    /\ schemas = EmptyDict
    /\ handoffs_dir = NoHandoffsDir
    /\ last = ProjectCall("init", "", "none", "ok", PipelineState(None),
                          PipelineState(None))

\* croak status: loads the state and prints it.
Status ==
    /\ \E p \in Procs :
          /\ CanStart(p)
          /\ ProcStep(p, Idle(procs[p].started + 1), "load", "status",
                      IF load_raises(state_file) THEN "YAMLError" ELSE "ok")
    /\ UNCHANGED NotProject

\* croak reset: a new PipelineState(initialized_at=now), then save.
Reset ==
    /\ \E p \in Procs :
          /\ CanStart(p)
          /\ ProcStep(p, Running(Started(p), "reset", "save",
                                 PipelineState(<<clock>>), "idle"),
                      "new", "reset", "ok")
    /\ UNCHANGED NotProject

\* croak prepare: result.is_valid is read from a ValidationResult, which has
\* no such attribute, so the command ends before it loads the state.
Prepare ==
    /\ \E p \in Procs :
          /\ CanStart(p)
          /\ ProcStep(p, Idle(procs[p].started + 1), "validate", "prepare",
                      "AttributeError")
    /\ UNCHANGED NotProject

\* croak evaluate, up to the evaluation: load_state, then the model path.
Evaluate ==
    /\ \E p \in Procs, model \in {None, <<"model.pt">>} :
          /\ CanStart(p)
          /\ LET state == load(state_file)
             IN  IF load_raises(state_file)
                 THEN ProcStep(p, Idle(procs[p].started + 1), "load",
                               "evaluate", "YAMLError")
                 ELSE IF model = None /\ state.artifacts = None
                 THEN ProcStep(p, Idle(procs[p].started + 1), "load",
                               "evaluate", "no model")
                 ELSE ProcStep(p, Running(Started(p), "evaluate", "evaluating",
                                          state, "idle"),
                               "load", "evaluate", "ok")
    /\ UNCHANGED NotProject

\* croak evaluate, after the evaluation: on success the stage is appended to
\* the state loaded at the start and the state is saved.
EvaluateDone ==
    /\ \E p \in Procs, success \in BOOLEAN :
          /\ procs[p].pc = "evaluating"
          /\ IF success
             THEN ProcStep(p, Running(procs[p], "evaluate", "save",
                              append_stage([procs[p].state EXCEPT
                                  !.current_stage = "deployment"], "evaluation"),
                              "idle"),
                           "evaluated", "evaluate", "ok")
             ELSE ProcStep(p, Idle(procs[p].started), "evaluated", "evaluate",
                           "failed")
    /\ UNCHANGED NotProject

\* croak train --provider local, up to the training: TrainingOrchestrator
\* loads the state it keeps; prepare_training raises without a data.yaml.
Train ==
    /\ \E p \in Procs, data_yaml \in BOOLEAN :
          /\ CanStart(p)
          /\ IF load_raises(state_file)
             THEN ProcStep(p, Idle(procs[p].started + 1), "load", "train",
                           "YAMLError")
             ELSE IF ~data_yaml
             THEN ProcStep(p, Idle(procs[p].started + 1), "load", "train",
                           "FileNotFoundError")
             ELSE ProcStep(p, Running(Started(p), "train", "training",
                                      load(state_file), "idle"),
                           "load", "train", "ok")
    /\ UNCHANGED NotProject

\* train_local after model.train: on success the orchestrator completes the
\* stage in the state it loaded at construction and saves it.
TrainDone ==
    /\ \E p \in Procs, success \in BOOLEAN :
          /\ procs[p].pc = "training"
          /\ IF success
             THEN ProcStep(p, Running(procs[p], "train", "save",
                              state_complete_stage([procs[p].state EXCEPT
                                  !.artifacts = <<"best.pt">>], "training"),
                              "train_cli"),
                           "trained", "train", "ok")
             ELSE ProcStep(p, Idle(procs[p].started), "trained", "train",
                           "failed")
    /\ UNCHANGED NotProject

\* _train_classic after a successful train_local: load_state again, set the
\* stage and the model, save.
TrainCli ==
    /\ \E p \in Procs :
          /\ procs[p].pc = "train_cli"
          /\ LET state == load(state_file)
                 staged == [state EXCEPT !.current_stage = "evaluation",
                                         !.artifacts = <<"best.pt">>]
             IN  IF load_raises(state_file)
                 THEN ProcStep(p, Idle(procs[p].started), "load", "train",
                               "YAMLError")
                 ELSE ProcStep(p, Running(procs[p], "train", "save",
                                     IF ~In("training", state.stages_completed)
                                     THEN append_stage(staged, "training")
                                     ELSE staged,
                                     "idle"),
                               "load", "train", "ok")
    /\ UNCHANGED NotProject

\* save up to open(state_path, "w"): the state is stamped, the file truncated.
SaveOpen ==
    /\ \E p \in Procs :
          /\ procs[p].pc = "save"
          /\ FileStep(p, [procs[p] EXCEPT !.pc = "save_write",
                                          !.state = stamp(@, clock),
                                          !.replaced = load(state_file)],
                      open_w(state_file), "save_open", procs[p].command, "ok")
    /\ UNCHANGED NotProject

\* No other process has written the file since it was opened.
OnlyWriter(file) == file.lines = <<>> /\ ~file.garbled

\* save from yaml.dump to the end of the with block: the document is written.
\* When another process has written the file in between, the text is laid
\* over what that process wrote, which may leave text of its document behind.
SaveClose ==
    /\ \E p \in Procs, overlaid \in BOOLEAN :
          /\ procs[p].pc = "save_write"
          /\ overlaid => ~OnlyWriter(state_file)
          /\ LET lines == yaml_dump(saved_document(procs[p].state,
                                                     procs[p].replaced))
                 written == write_lines(open_w(state_file), lines)
             IN  FileStep(p,
                      IF procs[p].then = "idle" THEN Idle(procs[p].started)
                      ELSE [procs[p] EXCEPT !.pc = procs[p].then],
                      IF OnlyWriter(state_file)
                      THEN write_lines(state_file, lines)
                      ELSE IF overlaid THEN garble(written) ELSE written,
                      "save_close", procs[p].command, "ok")
    /\ UNCHANGED NotProject

\* The user interrupts a command. In the middle of save the text yaml.dump
\* has written so far reaches the file: some of the lines, from none to all
\* but the last, and possibly a part of the next one.
Interrupt ==
    /\ \E p \in Procs :
          /\ procs[p].pc # "idle"
          /\ IF procs[p].pc = "save_write"
             THEN \E written \in 0..(Len(StateKeys) - 1), cut \in BOOLEAN :
                     LET file == write_lines(state_file,
                                    SubSeq(yaml_dump(procs[p].state), 1, written))
                     IN  FileStep(p, Idle(procs[p].started),
                                  IF cut THEN garble(file) ELSE file,
                                  "interrupt", procs[p].command, "interrupted")
             ELSE ProcStep(p, Idle(procs[p].started), "interrupt",
                           procs[p].command, "interrupted")
    /\ UNCHANGED NotProject

NextProject ==
    \/ Status \/ Reset \/ Prepare \/ Evaluate \/ EvaluateDone \/ Train
    \/ TrainDone \/ TrainCli \/ SaveOpen \/ SaveClose \/ Interrupt

SpecProject == InitProject /\ [][NextProject]_vars

\* ------------------------------------------------------------------------
\* Specification of load and save of one PipelineState (state.py)
\* ------------------------------------------------------------------------

\* The states a PipelineState object can hold.
Documents ==
    [artifacts : {None, <<"best.pt">>},
     current_stage : {"uninitialized", "training"},
     errors : {<<>>, <<"m1">>},
     experiments : {<<>>, <<"exp1">>},
     initialized_at : {None, <<InitTime>>},
     last_updated : {None, <<InitTime>>},
     stages_completed : {<<>>, <<"data_preparation">>,
                         <<"training", "data_preparation">>},
     warnings : {<<>>, <<"m2">>},
     workflow_artifacts : {EmptyDict, [w1 |-> [a |-> "art"]]},
     workflow_progress : {EmptyDict, [w1 |-> <<"a">>]}]

\* What the state file can hold before a save: nothing, no file at all, the
\* document of an earlier save, or what an interrupted save left.
PriorFiles ==
    LET earlier == save(NoFile,
                        [PipelineState(<<InitTime>>) EXCEPT
                            !.current_stage = "evaluation",
                            !.stages_completed = <<"training", "evaluation">>,
                            !.warnings = <<"m1">>],
                        InitTime)
    IN  {NoFile, open_w(NoFile), earlier, garble(earlier),
         [earlier EXCEPT !.lines = SubSeq(@, 1, 7)]}

\* The object of the one process of this specification.
Holding(state) ==
    [p1 |-> Running(Idle(0), "none", "idle", state, "idle")]

InitStateFile ==
    /\ clock = CommandTime
    /\ state_file \in PriorFiles
    /\ \E state \in Documents : procs = Holding(state)
    /\ NoWorkflows /\ NoState /\ NoValidation /\ NoSplitter
    /\ HAS_JSONSCHEMA = FALSE
    /\ contracts_dir = EmptyDict
    /\ schemas = EmptyDict
    /\ handoffs_dir = NoHandoffsDir
    /\ last = ProjectCall("init", "", "none", "ok", PipelineState(None),
                          PipelineState(None))

\* state.save(state_path)
StateSave ==
    /\ state_file' = save(state_file, procs["p1"].state, clock)
    /\ procs' = Holding(stamp(procs["p1"].state, clock))
    /\ last' = ProjectCall("save", "p1", "none", "ok",
                           stamp(procs["p1"].state, clock), load(state_file))
    /\ UNCHANGED clock
    /\ UNCHANGED NotProject

\* state = PipelineState.load(state_path)
StateLoad ==
    /\ procs' = IF load_raises(state_file) THEN procs
                ELSE Holding(load(state_file))
    /\ last' = ProjectCall("load", "p1", "none",
                           IF load_raises(state_file) THEN "YAMLError"
                           ELSE "ok",
                           PipelineState(None), PipelineState(None))
    /\ UNCHANGED <<state_file, clock>>
    /\ UNCHANGED NotProject

\* Time passes.
StateTick ==
    /\ clock < CommandTime + MaxClock
    /\ clock' = clock + 1
    /\ last' = ProjectCall("tick", "", "none", "ok", PipelineState(None),
                           PipelineState(None))
    /\ UNCHANGED <<state_file, procs>>
    /\ UNCHANGED NotProject

NextStateFile == StateSave \/ StateLoad \/ StateTick

SpecStateFile == InitStateFile /\ [][NextStateFile]_vars

\* ------------------------------------------------------------------------
\* Specification of the YOLO annotation format check
\* ------------------------------------------------------------------------

\* The fields label lines are written with, by position.
ClassTexts  == {IntText(0), IntText(-1), DecText(1500), WordText}
XTexts      == {DecText(0), DecText(1000), DecText(1001), WordText}
YTexts      == {DecText(500), DecText(-1), NanText}
WidthTexts  == {DecText(0), DecText(1), IntText(1), DecText(1001)}
HeightTexts == {DecText(1000), WordText, DecText(-500)}

ValidLine == <<IntText(0), DecText(500), DecText(500), DecText(100), DecText(100)>>

\* The lines of label files: blank, with four or six fields, and with five.
LabelLines ==
    {<<>>, SubSeq(ValidLine, 1, 4), ValidLine \o <<DecText(100)>>}
        \cup (ClassTexts \X XTexts \X YTexts \X WidthTexts \X HeightTexts)

LabelFile(name, readable, lines) ==
    [name |-> name, readable |-> readable, lines |-> lines]

\* The samples of label files the check is run on: a file with one line of
\* LabelLines, alone or after a valid line, or no such file, followed by
\* empty, unreadable, valid and invalid files.
FirstFiles ==
    {<<>>} \cup {<<LabelFile("img_0000.txt", TRUE, <<line>>)>> : line \in LabelLines}
           \cup {<<LabelFile("img_0000.txt", TRUE, <<ValidLine, line>>)>> :
                     line \in LabelLines}
OtherFiles ==
    {<<>>,
     <<LabelFile("img_0001.txt", TRUE, <<>>)>>,
     <<LabelFile("img_0001.txt", TRUE, <<>>), LabelFile("img_0002.txt", TRUE, <<>>)>>,
     <<LabelFile("img_0001.txt", FALSE, <<>>)>>,
     <<LabelFile("img_0001.txt", TRUE, <<ValidLine, <<>>>>)>>,
     <<LabelFile("img_0001.txt", TRUE,
                 <<<<IntText(-1), DecText(2000), DecText(500), DecText(0), DecText(100)>>,
                   <<WordText>>>>)>>}

\* The result as _validate_images and _validate_annotations leave it.
ResultsBefore ==
    {ValidationResult,
     result_add_warning(ValidationResult, [text |-> "Only N images found", count |-> 5]),
     result_add_error(ValidationResult, [text |-> "corrupt images found", count |-> 2])}

InitYolo ==
    /\ validation_result \in ResultsBefore
    /\ NoWorkflows /\ NoState /\ NoHandoffs /\ NoSplitter /\ NoProject
    /\ last = [op |-> "init"]

ValidateYoloFormat ==
    /\ last.op = "init"
    /\ \E first \in FirstFiles, others \in OtherFiles :
           validate_yolo_format(first \o others)
    /\ UNCHANGED NotValidation

NextYolo == ValidateYoloFormat

SpecYolo == InitYolo /\ [][NextYolo]_vars

\* ------------------------------------------------------------------------
\* Specification of the experiments of one PipelineState
\* ------------------------------------------------------------------------

\* The longest list of experiments.
MaxExperiments == 3

ExperimentIds == {"exp-001", "exp-002"}
Experiments ==
    {Experiment(id, status) :
         id \in ExperimentIds, status \in {"pending", "running", "completed"}}

ExperimentCall(op, arg, result) == [op |-> op, arg |-> arg, result |-> result]

InitExperiments ==
    /\ clock = CommandTime
    /\ state_file = NoFile
    /\ procs = Holding(PipelineState(None))
    /\ NoWorkflows /\ NoState /\ NoValidation /\ NoSplitter
    /\ HAS_JSONSCHEMA = FALSE
    /\ contracts_dir = EmptyDict
    /\ schemas = EmptyDict
    /\ handoffs_dir = NoHandoffsDir
    /\ last = ExperimentCall("init", "", None)

AddExperiment ==
    /\ Len(procs["p1"].state.experiments) < MaxExperiments
    /\ \E experiment \in Experiments :
           /\ procs' = Holding(add_experiment(procs["p1"].state, experiment))
           /\ last' = ExperimentCall("add_experiment", experiment.id, None)
    /\ UNCHANGED <<state_file, clock>>
    /\ UNCHANGED NotProject

GetExperiment ==
    /\ \E experiment_id \in ExperimentIds \cup {"nonexistent"} :
           last' = ExperimentCall("get_experiment", experiment_id,
                                  get_experiment(procs["p1"].state, experiment_id))
    /\ UNCHANGED <<state_file, procs, clock>>
    /\ UNCHANGED NotProject

NextExperiments == AddExperiment \/ GetExperiment

SpecExperiments == InitExperiments /\ [][NextExperiments]_vars

\* ------------------------------------------------------------------------
\* Specification of the workflow maps of the state with two workflows
\* ------------------------------------------------------------------------

\* Workflow "w2" has two steps in a chain; "w1" has the same definition, two
\* independent steps, or a step that depends on a step declared after it.
ChainWorkflow ==
    [steps |-> <<[id |-> "a", depends_on |-> <<>>], [id |-> "b", depends_on |-> <<"a">>]>>]
FirstWorkflows ==
    {ChainWorkflow,
     [steps |-> <<[id |-> "a", depends_on |-> <<>>], [id |-> "b", depends_on |-> <<>>]>>],
     [steps |-> <<[id |-> "a", depends_on |-> <<"b">>], [id |-> "b", depends_on |-> <<>>]>>]}

\* The step ids the calls name: the declared ones.
DeclaredStepIds == {"a", "b"}

\* The workflow ids the state is called with: those with a definition and one
\* with none.
StateWorkflowIds == WorkflowIds \cup {UnknownWorkflow}

InitWorkflowState ==
    /\ \E w \in FirstWorkflows :
           workflows = [i \in WorkflowIds |-> IF i = "w1" THEN w ELSE ChainWorkflow]
    /\ workflow_progress = EmptyDict
    /\ workflow_artifacts = EmptyDict
    /\ NoState /\ NoValidation /\ NoHandoffs /\ NoSplitter /\ NoProject
    /\ last = NoCall

\* executor.complete_step(w, s, a)
ExecutorCompleteStep ==
    /\ \E w \in WorkflowIds, s \in DeclaredStepIds, a \in ArtifactArgs :
           complete_step(w, s, a)
    /\ UNCHANGED NotWorkflow

\* state.complete_workflow_step(w, s, a), called on the state itself.
StateCompleteWorkflowStep ==
    /\ \E w \in StateWorkflowIds, s \in DeclaredStepIds, a \in ArtifactArgs :
           /\ complete_workflow_step(w, s, a)
           /\ last' = Call("complete_workflow_step", w, s, "ok", NoResult)
    /\ UNCHANGED workflows
    /\ UNCHANGED NotWorkflow

\* state.reset_workflow(w), called on the state itself or by
\* executor.reset_workflow(w), which raises FileNotFoundError afterwards when
\* the workflow has no definition.
StateResetWorkflow ==
    /\ \E w \in StateWorkflowIds :
           /\ state_reset_workflow(w)
           /\ last' = Call("reset_workflow", w, "",
                           IF w \in DOMAIN workflows THEN "ok" ELSE "FileNotFoundError",
                           NoResult)
    /\ UNCHANGED workflows
    /\ UNCHANGED NotWorkflow

NextWorkflowState ==
    ExecutorCompleteStep \/ StateCompleteWorkflowStep \/ StateResetWorkflow

SpecWorkflowState == InitWorkflowState /\ [][NextWorkflowState]_vars

\* ------------------------------------------------------------------------
\* Specification of the image checks
\* ------------------------------------------------------------------------

\* The most files that open, and the most corrupt files, of a raw directory.
MaxValidImages == 21
MaxCorruptImages == 3

\* The sizes the images of a directory have: all of one size, or the first
\* image of another.
ImageSizes == {<<640, 480>>, <<100, 100>>, <<5000, 4000>>, <<2000, 400>>}

\* A raw directory with the corrupt files first or last.
RawImages(valid, corrupt, first_size, size, corrupt_first) ==
    LET good == [i \in 1..valid |->
                    ImageFile(i, TRUE, IF i = 1 THEN first_size ELSE size)]
        bad  == [i \in 1..corrupt |-> ImageFile(valid + i, FALSE, <<0, 0>>)]
    IN  IF corrupt_first THEN bad \o good ELSE good \o bad

ImagesDirs ==
    {<<>>} \cup
    {<<RawImages(valid, corrupt, first_size, <<640, 480>>, corrupt_first)>> :
         valid \in 0..MaxValidImages, corrupt \in 0..MaxCorruptImages,
         first_size \in ImageSizes, corrupt_first \in BOOLEAN}

InitImages ==
    /\ validation_result = ValidationResult
    /\ NoWorkflows /\ NoState /\ NoHandoffs /\ NoSplitter /\ NoProject
    /\ last = [op |-> "init"]

\* validate_all starts with _validate_images on a new ValidationResult.
ValidateImages ==
    /\ last.op = "init"
    /\ \E images_dir \in ImagesDirs : validate_images(images_dir)
    /\ UNCHANGED NotValidation

NextImages == ValidateImages

SpecImages == InitImages /\ [][NextImages]_vars

\* ------------------------------------------------------------------------
\* Specification of a workflow run: a definition validate_workflow reports
\* valid, completed from empty progress one get_next_step at a time
\* ------------------------------------------------------------------------

ValidDefinitions ==
    {w \in WorkflowDefinitions(MaxDefinitionSteps) : validate_workflow(w, {}).valid}

InitRunWorkflow ==
    /\ \E w \in ValidDefinitions : workflows = [i \in {"w1"} |-> w]
    /\ workflow_progress = EmptyDict
    /\ workflow_artifacts = EmptyDict
    /\ NoState /\ NoValidation /\ NoHandoffs /\ NoSplitter /\ NoProject
    /\ last = NoCall

\* complete_step on the step get_next_step returns, while it returns one.
CompleteNextStep ==
    /\ \E w \in DOMAIN workflows :
           LET next_step == get_next_step(workflows[w],
                                          get_workflow_progress(workflow_progress, w))
           IN  /\ next_step # NoStep
               /\ \E a \in ArtifactArgs :
                      complete_step(w, workflows[w].steps[next_step].id, a)
    /\ UNCHANGED NotWorkflow

NextRunWorkflow == CompleteNextStep \/ GetWorkflowStatus

SpecRunWorkflow == InitRunWorkflow /\ [][NextRunWorkflow]_vars

\* The caller keeps calling while get_next_step returns a step.
FairSpecRunWorkflow == SpecRunWorkflow /\ WF_vars(CompleteNextStep)

\* ------------------------------------------------------------------------
\* Specification of the pipeline commands of one terminal, each run to its
\* end before the next one starts
\* ------------------------------------------------------------------------

\* evaluate appends to stages_completed on every successful run; runs are
\* followed while the list is shorter than this.
MaxStageEntries == 4

\* The record of a command: what it raised or printed.
PipelineCall(command, outcome, report) ==
    [op |-> command, outcome |-> outcome, report |-> report]

\* A command that leaves the state file as it is.
ReadOnly(command, outcome, report) ==
    /\ last' = PipelineCall(command, outcome, report)
    /\ UNCHANGED <<state_file, procs, clock>>

\* A command that ends by saving state.
Saves(command, file) ==
    /\ state_file' = file
    /\ last' = PipelineCall(command, "ok", "none")
    /\ UNCHANGED <<procs, clock>>

InitPipeline ==
    /\ clock = CommandTime
    /\ state_file = save(NoFile, PipelineState(<<InitTime>>), InitTime)
    /\ procs = EmptyDict
    /\ NoWorkflows /\ NoState /\ NoValidation /\ NoSplitter
    /\ HAS_JSONSCHEMA = FALSE
    /\ contracts_dir = EmptyDict
    /\ schemas = EmptyDict
    /\ handoffs_dir = NoHandoffsDir
    /\ last = PipelineCall("init", "ok", "none")

\* croak prepare: result.is_valid is read from a ValidationResult, which has
\* no such attribute, so the command ends before it loads the state.
RunPrepare ==
    /\ ReadOnly("prepare", "AttributeError", "none")
    /\ UNCHANGED NotProject

\* croak train --provider local with a data.yaml in place and a training
\* that succeeds: the orchestrator completes the stage and saves, then the
\* command loads the state again, sets the stage and the model, and saves.
RunTrain ==
    /\ \E trained \in {save(state_file,
                             state_complete_stage(
                                 [load(state_file) EXCEPT !.artifacts = <<"best.pt">>],
                                 "training"),
                             clock)} :
       \E state \in {load(trained)} :
           LET staged == [state EXCEPT !.current_stage = "evaluation",
                                       !.artifacts = <<"best.pt">>]
           IN  Saves("train",
                     save(trained,
                          IF ~In("training", state.stages_completed)
                          THEN append_stage(staged, "training") ELSE staged,
                          clock))
    /\ UNCHANGED NotProject

\* croak train without a data.yaml, or with a training that fails.
RunTrainFailed ==
    /\ \E outcome \in {"FileNotFoundError", "failed"} :
           ReadOnly("train", outcome, "none")
    /\ UNCHANGED NotProject

\* croak evaluate with a model and an evaluation that succeeds.
RunEvaluate ==
    /\ \E model \in {None, <<"model.pt">>} :
           LET state == load(state_file)
           IN  /\ ~(model = None /\ state.artifacts = None)
               /\ Len(state.stages_completed) < MaxStageEntries
               /\ Saves("evaluate",
                        save(state_file,
                             append_stage([state EXCEPT
                                 !.current_stage = "deployment"], "evaluation"),
                             clock))
    /\ UNCHANGED NotProject

\* croak evaluate without a model, or with an evaluation that fails.
RunEvaluateFailed ==
    /\ \E model \in {None, <<"model.pt">>} :
           IF model = None /\ load(state_file).artifacts = None
           THEN ReadOnly("evaluate", "no model", "none")
           ELSE ReadOnly("evaluate", "failed", "none")
    /\ UNCHANGED NotProject

\* croak deploy modal, croak deploy edge and croak export: the state is
\* loaded for the model path and never saved.
RunDeploy ==
    /\ \E model \in {None, <<"model.pt">>}, success \in BOOLEAN :
           IF model = None /\ load(state_file).artifacts = None
           THEN ReadOnly("deploy", "no model", "none")
           ELSE ReadOnly("deploy", IF success THEN "ok" ELSE "failed", "none")
    /\ UNCHANGED NotProject

\* croak next
RunNext ==
    /\ ReadOnly("next", "ok", next_report(load(state_file)))
    /\ UNCHANGED NotProject

NextPipeline ==
    \/ RunPrepare \/ RunTrain \/ RunTrainFailed \/ RunEvaluate
    \/ RunEvaluateFailed \/ RunDeploy \/ RunNext

SpecPipeline == InitPipeline /\ [][NextPipeline]_vars

\* The user keeps running the commands, and trainings and evaluations that
\* can succeed do succeed in the end.
FairSpecPipeline ==
    /\ SpecPipeline
    /\ WF_vars(RunPrepare) /\ WF_vars(RunTrain) /\ WF_vars(RunEvaluate)
    /\ WF_vars(RunDeploy) /\ WF_vars(RunNext)

\* ------------------------------------------------------------------------
\* Properties
\* ------------------------------------------------------------------------

\* The steps of a definition, and what a step id resolves to.
StepsOf(w) == workflows[w].steps
Declared(w, s) == \E i \in DOMAIN StepsOf(w) : StepsOf(w)[i].id = s
FirstDeclared(w, s) ==
    CHOOSE i \in DOMAIN StepsOf(w) :
        /\ StepsOf(w)[i].id = s
        /\ \A j \in 1..(i - 1) : StepsOf(w)[j].id # s
Completed(w) == IF w \in DOMAIN workflow_progress THEN workflow_progress[w] ELSE <<>>
DepsMet(step, completed) ==
    \A k \in DOMAIN step.depends_on : \E n \in DOMAIN completed :
        completed[n] = step.depends_on[k]

\* C1, rejected calls: a complete_step naming a step id the workflow does not
\* declare, or a step with a dependency that is not yet in the workflow's
\* completed list, raises ValueError and changes neither map.
C1_Rejected ==
    \A w \in DOMAIN workflows :
        (/\ last'.op = "complete_step"
         /\ last'.workflow_id = w
         /\ \/ ~Declared(w, last'.step_id)
            \/ ~DepsMet(StepsOf(w)[FirstDeclared(w, last'.step_id)], Completed(w)))
        => /\ last'.outcome \in {"ValueError: Step not found",
                                 "ValueError: Dependency not met"}
           /\ UNCHANGED <<workflow_progress, workflow_artifacts>>

\* C1, accepted calls: with every dependency completed the call returns, the
\* step id is in the completed list (appended when it was not there), and a
\* non-empty artifacts payload is stored under the step id.
C1_Accepted ==
    \A w \in DOMAIN workflows :
        (/\ last'.op = "complete_step"
         /\ last'.workflow_id = w
         /\ Declared(w, last'.step_id)
         /\ DepsMet(StepsOf(w)[FirstDeclared(w, last'.step_id)], Completed(w)))
        => /\ last'.outcome = "ok"
           /\ w \in DOMAIN workflow_progress'
           /\ workflow_progress'[w] =
                  IF \E n \in DOMAIN Completed(w) : Completed(w)[n] = last'.step_id
                  THEN Completed(w)
                  ELSE Completed(w) \o <<last'.step_id>>
           /\ \A a \in ArtifactArgs :
                  (complete_step(w, last'.step_id, a) /\ a \notin {"None", "empty"})
                  => /\ w \in DOMAIN workflow_artifacts'
                     /\ last'.step_id \in DOMAIN workflow_artifacts'[w]
                     /\ workflow_artifacts'[w][last'.step_id] = a

\* C1: complete_step raises ValueError and leaves workflow_progress and
\* workflow_artifacts unchanged when the step is not a step of the workflow or
\* one of its dependencies is not completed; otherwise it records the step as
\* completed, with its artifacts when given.
C1_CompleteStepGate == [][C1_Rejected /\ C1_Accepted]_vars

\* C1 witness: a step was completed and a later call was rejected for an unmet
\* dependency.
C1_Witness ==
    /\ last.op = "complete_step"
    /\ last.outcome = "ValueError: Dependency not met"
    /\ \E w \in DOMAIN workflow_progress :
           /\ Len(workflow_progress[w]) > 0
           /\ w \in DOMAIN workflow_artifacts

\* The depends_on graph over step ids: an edge from a step's id to each id in
\* its depends_on, for every declared step.
AllEdges(w) ==
    UNION {{<<StepsOf(w)[i].id, StepsOf(w)[i].depends_on[k]>> :
                k \in DOMAIN StepsOf(w)[i].depends_on} : i \in DOMAIN StepsOf(w)}

\* The same graph with each id standing for the first step declared with it.
FirstDeclarationEdges(w) ==
    {e \in AllEdges(w) :
        \E k \in DOMAIN StepsOf(w)[FirstDeclared(w, e[1])].depends_on :
            StepsOf(w)[FirstDeclared(w, e[1])].depends_on[k] = e[2]}

RECURSIVE Closure(_, _)
Closure(E, R) ==
    LET R2 == R \cup {<<e[1], f[2]>> : <<e, f>> \in {p \in R \X E : p[1][2] = p[2][1]}}
    IN  IF R2 = R THEN R ELSE Closure(E, R2)

HasCycleIn(E) == \E e \in Closure(E, E) : e[1] = e[2]

MissingDependency(w) == \E e \in AllEdges(w) : ~Declared(w, e[2])

\* C8: validate_workflow reports valid=false exactly when the depends_on graph
\* has a cycle or a step depends on an id that no step has, whatever the
\* content of workflow_progress; a missing step file only adds a warning.
C8_StaticValidation ==
    (last.op = "validate_workflow" /\ last.workflow_id \in DOMAIN workflows)
    => last.result.valid =
           ~(MissingDependency(last.workflow_id) \/ HasCycleIn(AllEdges(last.workflow_id)))

\* What validate_workflow does decide: the cycle search follows only the first
\* step declared with each id.
C8_FirstDeclarationGraph ==
    (last.op = "validate_workflow" /\ last.workflow_id \in DOMAIN workflows)
    => last.result.valid =
           ~(\/ MissingDependency(last.workflow_id)
             \/ HasCycleIn(FirstDeclarationEdges(last.workflow_id)))

\* A step is ready when its id is not completed and all its dependencies are.
Ready(step, completed) ==
    /\ \A n \in DOMAIN completed : completed[n] # step.id
    /\ DepsMet(step, completed)

\* C9: get_next_step(completed) returns the first step, in declared order, whose
\* id is not in completed and whose dependencies all are, and returns none
\* exactly when there is no such step.
C9_NextStepIsFirstReady ==
    last.op = "get_next_step" =>
        LET steps == StepsOf(last.workflow_id)
            c     == last.result.completed
            r     == last.result.next_step
        IN  /\ r # 0 => /\ r \in DOMAIN steps
                        /\ Ready(steps[r], c)
                        /\ \A j \in 1..(r - 1) : ~Ready(steps[j], c)
            /\ r = 0 <=> ~\E i \in DOMAIN steps : Ready(steps[i], c)

\* C9 witness: none is returned although a step is not completed: every
\* remaining step is blocked.
C9_Witness ==
    /\ last.op = "get_next_step"
    /\ last.result.next_step = 0
    /\ \E i \in DOMAIN StepsOf(last.workflow_id) :
           \A n \in DOMAIN last.result.completed :
               last.result.completed[n] # StepsOf(last.workflow_id)[i].id

\* The number of declared steps whose id is in the completed list.
RECURSIVE StepsDone(_, _)
StepsDone(steps, completed) ==
    IF steps = <<>> THEN 0
    ELSE (IF \E n \in DOMAIN completed : completed[n] = Head(steps).id THEN 1 ELSE 0)
         + StepsDone(Tail(steps), completed)

\* The number of declared steps with the given id.
StepsWithId(steps, id) == Cardinality({i \in DOMAIN steps : steps[i].id = id})

\* What get_progress reports for the workflow's completed list.
ProgressNow(w) == get_workflow_status(workflows[w], workflow_progress, w).progress

C10_Report ==
    \A w \in DOMAIN workflows :
        LET p     == ProgressNow(w)
            total == Len(StepsOf(w))
            done  == StepsDone(StepsOf(w), Completed(w))
        IN  /\ p.total_steps = total
            /\ p.completed_steps = done
            /\ p.remaining_steps = total - done
            /\ IF total = 0 THEN p.progress_percent = <<0, 1>>
               ELSE p.progress_percent[1] * total = done * 100 * p.progress_percent[2]
            /\ p.is_complete <=> done = total
            /\ (done = 1 /\ total = 2) => (p.progress_percent = <<50, 1>> /\ ~p.is_complete)
            /\ (done = total /\ total > 0) => (p.progress_percent = <<100, 1>> /\ p.is_complete)

\* A complete_step call returned for a step id that was not yet completed.
NewlyCompleted(w) ==
    /\ last'.op = "complete_step"
    /\ last'.workflow_id = w
    /\ last'.outcome = "ok"
    /\ \A n \in DOMAIN Completed(w) : Completed(w)[n] # last'.step_id

C10_IncreasesByOne ==
    \A w \in DOMAIN workflows :
        NewlyCompleted(w) =>
            ProgressNow(w)'.completed_steps = ProgressNow(w).completed_steps + 1

C10_IncreasesByDeclarations ==
    \A w \in DOMAIN workflows :
        NewlyCompleted(w) =>
            ProgressNow(w)'.completed_steps =
                ProgressNow(w).completed_steps + StepsWithId(StepsOf(w), last'.step_id)

\* C10 as stated: get_progress reports total, completed (the steps whose id is in
\* completed), remaining, percent and is_complete, and each successful
\* complete_step of a step not yet completed raises completed_steps by one.
C10_ProgressByOne == [](C10_Report) /\ [][C10_IncreasesByOne]_vars

\* What the code does: the report is as stated, and each successful
\* complete_step of a step id not yet completed raises completed_steps by the
\* number of steps declared with that id (by one when the id is declared once).
C10_ProgressByDeclarations == [](C10_Report) /\ [][C10_IncreasesByDeclarations]_vars

\* C10 witness: one completion of an id declared twice gives 2 completed steps.
C10_Witness ==
    /\ last.op = "complete_step"
    /\ last.outcome = "ok"
    /\ Len(Completed(last.workflow_id)) = 1
    /\ ProgressNow(last.workflow_id).completed_steps = 2

\* ------------------------------------------------------------------------
\* Properties of the handoff validator
\* ------------------------------------------------------------------------

\* The schema a contract name stands for: the file with the first of the
\* extensions that the contracts directory holds.
HasSchema(c) == \E k \in DOMAIN Extensions : <<c, Extensions[k]>> \in DOMAIN contracts_dir
SchemaInForce(c) ==
    LET k == CHOOSE i \in DOMAIN Extensions :
                 /\ <<c, Extensions[i]>> \in DOMAIN contracts_dir
                 /\ \A j \in 1..(i - 1) : <<c, Extensions[j]>> \notin DOMAIN contracts_dir
    IN  contracts_dir[<<c, Extensions[k]>>]

\* The payload lacks a required field, or (with jsonschema) has a property of
\* the wrong type.
FailsValidation(c, data) ==
    LET schema == SchemaInForce(c)
    IN  \/ \E k \in DOMAIN schema.required : schema.required[k] \notin DOMAIN data
        \/ /\ HAS_JSONSCHEMA
           /\ \E f \in DOMAIN data \cap DOMAIN schema.properties :
                  data[f] # schema.properties[f]

\* A create_handoff call: the only step of the handoff validator that leaves
\* the clock alone.
C2_Step ==
    (clock' = clock /\ last'.op = "create_handoff") =>
        LET c == last'.contract
            d == last'.data
        IN  /\ (HasSchema(c) /\ FailsValidation(c, d))
                   => /\ last'.outcome = "ContractValidationError"
                      /\ Len(last'.errors) > 0
                      /\ handoffs_dir' = handoffs_dir
            /\ last'.outcome # "ok" => handoffs_dir' = handoffs_dir
            /\ handoffs_dir' # handoffs_dir
                   => /\ last'.outcome = "ok"
                      /\ HasSchema(c) /\ ~FailsValidation(c, d)
                      /\ \E name \in DOMAIN handoffs_dir'.files :
                             /\ handoffs_dir'.files[name].handoff.data = d
                             /\ handoffs_dir'.files[name].handoff.contract = c
                             /\ \A other \in DOMAIN handoffs_dir.files \ {name} :
                                    /\ other \in DOMAIN handoffs_dir'.files
                                    /\ handoffs_dir'.files[other] = handoffs_dir.files[other]
                             /\ DOMAIN handoffs_dir'.files = DOMAIN handoffs_dir.files \cup {name}

\* C2: create_handoff validates before it writes: a payload that fails
\* validation against the named contract raises ContractValidationError and
\* leaves the handoffs directory exactly as it was, and the directory changes
\* only in a call whose payload passed validation, by the one file written.
C2_ValidateThenWrite == [][C2_Step]_vars

\* C2 witness: a payload missing a required field was rejected when the
\* handoffs directory already held a file.
C2_Witness ==
    /\ last.op = "create_handoff"
    /\ last.outcome = "ContractValidationError"
    /\ \E k \in DOMAIN SchemaInForce(last.contract).required :
           SchemaInForce(last.contract).required[k] \notin DOMAIN last.data
    /\ DOMAIN handoffs_dir.files # {}

\* ------------------------------------------------------------------------
\* Properties of the PipelineState lists
\* ------------------------------------------------------------------------

Occurrences(list, x) == Cardinality({i \in DOMAIN list : list[i] = x})

\* The list an operation appends to, among the three given.
ListOf(op, stages, warns, errs) ==
    CASE op = "complete_stage" -> stages
      [] op = "add_warning"    -> warns
      [] op = "add_error"      -> errs

ListOps == {"complete_stage", "add_warning", "add_error"}

\* After a call the list holds the value exactly once.
C3_ExactlyOnce ==
    last.op \in ListOps =>
        Occurrences(ListOf(last.op, stages_completed, warnings, errors), last.arg) = 1

\* A call appends the value when it is absent and changes nothing when it is
\* present; the other two lists are never touched.
C3_AppendOrNothing ==
    last'.op \in ListOps =>
        LET before == ListOf(last'.op, stages_completed, warnings, errors)
            after  == ListOf(last'.op, stages_completed', warnings', errors')
        IN  /\ after = IF \E i \in DOMAIN before : before[i] = last'.arg
                       THEN before ELSE before \o <<last'.arg>>
            /\ \A op \in ListOps \ {last'.op} :
                   ListOf(op, stages_completed', warnings', errors')
                       = ListOf(op, stages_completed, warnings, errors)

\* C3: complete_stage, add_warning and add_error are idempotent appends: after
\* any number of calls the list holds the value exactly once, and a call with
\* a value already in the list changes nothing.
C3_IdempotentAppends == [](C3_ExactlyOnce) /\ [][C3_AppendOrNothing]_vars

\* C3 witness: complete_stage was called again with a stage already completed.
C3_Witness ==
    /\ last.op = "complete_stage"
    /\ ~last.appended
    /\ Len(stages_completed) >= 2
    /\ Len(warnings) >= 1

\* ------------------------------------------------------------------------
\* Properties of a ValidationResult
\* ------------------------------------------------------------------------

\* add_error has been called: errors is not empty.
C7_FailedAfterError ==
    Len(validation_result.errors) > 0 => ~validation_result.passed

C7_StaysFailed == ~validation_result.passed => ~validation_result'.passed

\* C7: once add_error has been called on a ValidationResult, passed is false,
\* and no later add_warning or add_error makes it true again.
C7_MonotonicFailure == [](C7_FailedAfterError) /\ [][C7_StaysFailed]_vars

\* C7 witness: a warning was added after an error, and passed is still false.
C7_Witness ==
    /\ last.op = "ValidationResult.add_warning"
    /\ Len(validation_result.errors) > 0
    /\ ~validation_result.passed

\* ------------------------------------------------------------------------
\* Properties of the dataset splitter
\* ------------------------------------------------------------------------

\* The names of the images of raw/ that have a label file.
PairedNames ==
    {raw_dir[i].name : i \in {j \in DOMAIN raw_dir : raw_dir[j].image /\ raw_dir[j].labelled}}

\* The ratios are within 0.001 of a sum of 1.0.
RatioSumOk(call) ==
    call.train_ratio + call.val_ratio + call.test_ratio \in 999..1001

\* How often a name occurs in the three splits of a call together.
TimesAssigned(call, name) ==
    Occurrences(call.splits.train, name) + Occurrences(call.splits.val, name)
        + Occurrences(call.splits.test, name)

SplitNames(call) ==
    {call.splits.train[i] : i \in DOMAIN call.splits.train}
        \cup {call.splits.val[i] : i \in DOMAIN call.splits.val}
        \cup {call.splits.test[i] : i \in DOMAIN call.splits.test}

\* C4: a split with ratios that sum to 1.0 within 0.001, over a dataset of N
\* image/label pairs, returns, and assigns every pair to exactly one of train,
\* val and test, so that the three sizes add up to N; this in the stratified
\* and in the non-stratified mode, pairs of the group -1 included.
C4_SplitPartitions ==
    \A r \in DOMAIN runs :
        (RatioSumOk(runs[r]) /\ PairedNames # {}) =>
            /\ runs[r].outcome = "ok"
            /\ \A name \in PairedNames : TimesAssigned(runs[r], name) = 1
            /\ SplitNames(runs[r]) = PairedNames
            /\ Len(runs[r].splits.train) + Len(runs[r].splits.val)
                   + Len(runs[r].splits.test) = Cardinality(PairedNames)
            /\ runs[r].result.train = Len(runs[r].splits.train)
            /\ runs[r].result.val = Len(runs[r].splits.val)
            /\ runs[r].result.test = Len(runs[r].splits.test)
            /\ runs[r].result.total = Cardinality(PairedNames)

\* C4 witness: a stratified split of more than ten pairs, some of them with a
\* blank first line, that filled train and test, after a non-stratified one.
C4_Witness ==
    /\ Len(runs) = 2
    /\ ~runs[1].stratify /\ runs[1].outcome = "ok"
    /\ runs[2].stratify /\ runs[2].outcome = "ok"
    /\ Cardinality(PairedNames) > StratifyAbove
    /\ \E i \in DOMAIN raw_dir :
           raw_dir[i].image /\ raw_dir[i].labelled /\ raw_dir[i].first_line = <<>>
    /\ runs[2].splits.train # <<>> /\ runs[2].splits.test # <<>>

\* A split call: the only step that adds to runs.
C5_Step ==
    Len(runs') = Len(runs) + 1 =>
        /\ (~RatioSumOk(last') \/ PairedNames = {})
               => /\ last'.outcome \in {"ValueError: Ratios must sum to 1.0",
                                         "ValueError: No image-label pairs found"}
                  /\ output_dir' = output_dir
                  /\ raw_dir' = raw_dir
        /\ last'.outcome # "ok" => (output_dir' = output_dir /\ raw_dir' = raw_dir)

\* C5: a split whose ratios do not sum to 1.0 within 0.001, or that finds no
\* image/label pair, raises ValueError and leaves the output directory as it
\* was: absent, or with exactly the directories and files it had.
C5_FailingSplitWritesNothing == [][C5_Step]_vars

\* C5 witness: ratios 0.5/0.5/0.5 were rejected after an earlier split had
\* filled the output directory.
C5_Witness ==
    /\ last.op = "split"
    /\ last.outcome = "ValueError: Ratios must sum to 1.0"
    /\ last.train_ratio + last.val_ratio + last.test_ratio = 1500
    /\ output_dir.exists
    /\ output_dir.images["train"] # {}

\* The members of a set of names in ascending order.
Ascending(S) ==
    [k \in 1..Cardinality(S) |-> CHOOSE x \in S : Cardinality({y \in S : y < x}) = k - 1]

SameArguments(a, b) ==
    /\ a.train_ratio = b.train_ratio /\ a.val_ratio = b.val_ratio
    /\ a.test_ratio = b.test_ratio
    /\ a.seed = b.seed /\ a.stratify = b.stratify

Members(list) == {list[i] : i \in DOMAIN list}

\* C6: two splits of the same dataset with the same seed, ratios and stratify
\* flag put every pair in the same split and return the same dataset_hash, and
\* the hash is a function of the set of paired image names alone.
C6_SplitDeterminism ==
    /\ \A i, j \in DOMAIN runs :
           (runs[i].outcome = "ok" /\ runs[j].outcome = "ok"
                /\ SameArguments(runs[i], runs[j]))
           => /\ Members(runs[i].splits.train) = Members(runs[j].splits.train)
              /\ Members(runs[i].splits.val) = Members(runs[j].splits.val)
              /\ Members(runs[i].splits.test) = Members(runs[j].splits.test)
              /\ runs[i].result.dataset_hash = runs[j].result.dataset_hash
    /\ \A i \in DOMAIN runs :
           runs[i].outcome = "ok"
           => runs[i].result.dataset_hash = Digest(Ascending(PairedNames), 1)

\* C6 witness: the same split was run twice, over images listed in descending
\* order, and put pairs in train and in val.
C6_Witness ==
    /\ Len(runs) = 2
    /\ runs[1].outcome = "ok" /\ runs[2].outcome = "ok"
    /\ SameArguments(runs[1], runs[2])
    /\ runs[1].splits.train # <<>> /\ runs[1].splits.val # <<>>
    /\ Len(raw_dir) > 2 /\ raw_dir[1].name > raw_dir[2].name

\* ------------------------------------------------------------------------
\* Properties of the commands over the state file
\* ------------------------------------------------------------------------

\* A step in which the command of p ends its save.
EndsSave(p) ==
    /\ procs[p].pc = "save_write"
    /\ last'.op = "save_close" /\ last'.proc = p

\* The stages a document holds that another lacks.
StagesLost(held, kept) ==
    {stage \in StageNames : /\ In(stage, held.stages_completed)
                            /\ ~In(stage, kept.stages_completed)}

C11_Step ==
    \A p \in Procs :
        EndsSave(p) =>
            /\ last'.outcome = "ok"
            /\ OnlyWriter(state_file) =>
                  /\ ~load_raises(state_file')
                  /\ load(state_file') = procs[p].state
                  /\ \A stage \in StagesLost(procs[p].replaced, procs[p].state) :
                        ~In(stage, load(state_file').stages_completed)

C12_Step ==
    last'.op = "save" =>
        /\ ~load_raises(state_file')
        /\ load(state_file') = procs'["p1"].state
        /\ \A k \in DOMAIN procs["p1"].state \ {"last_updated"} :
              load(state_file')[k] = procs["p1"].state[k]
        /\ load(state_file').last_updated = <<clock>>

C13_Step ==
    (last'.op = "load" /\ ~state_file.exists) =>
        /\ last'.outcome = "ok"
        /\ procs'["p1"].state.current_stage = "uninitialized"
        /\ procs'["p1"].state.stages_completed = <<>>
        /\ procs'["p1"].state.experiments = <<>>
        /\ procs'["p1"].state.warnings = <<>>
        /\ procs'["p1"].state.errors = <<>>
        /\ DOMAIN procs'["p1"].state.workflow_progress = {}
        /\ DOMAIN procs'["p1"].state.workflow_artifacts = {}
        /\ state_file' = state_file

\* C13: load on a missing state file is not an error: it returns a document
\* with default values (current_stage 'uninitialized', empty stages_completed,
\* experiments, warnings, errors and workflow maps) and neither creates nor
\* changes anything on disk.
C13_LoadMissing == [][C13_Step]_vars

\* A load has returned the default document and there is still no state file.
C13_Witness ==
    /\ last.op = "load" /\ last.outcome = "ok"
    /\ ~state_file.exists
    /\ procs["p1"].state.current_stage = "uninitialized"

C14_Step ==
    \A p \in Procs :
        (EndsSave(p) /\ procs[p].command # "reset"
                     /\ ~load_raises(state_file')) =>
            StagesLost(procs[p].replaced, load(state_file')) = {}

\* C14: stages_completed membership is monotonic in the persisted state: a
\* stage name in the saved document is in every later saved version, until a
\* reset replaces the document. Stated for each save that is not the one of
\* reset: no stage of the document it replaces is missing from the one it
\* leaves.
C14_StagesMonotonic == [][C14_Step]_vars

\* The stages_completed lists there are: the one of the document in the file
\* and the ones of the states the commands hold.
StageLists ==
    {procs[p].state.stages_completed : p \in Procs}
        \cup (IF load_raises(state_file) THEN {}
              ELSE {load(state_file).stages_completed})

\* C15: stages_completed is an ordered set: in every state the pipeline
\* commands (prepare, train, evaluate, reset, each possibly repeated) and
\* complete_stage reach, no stage name occurs more than once in it.
C15_NoDuplicateStages ==
    \A list \in StageLists : \A stage \in StageNames :
        Occurrences(list, stage) <= 1

\* The file holds the whole of one document.
CompleteDocument(file) ==
    /\ ~file.garbled
    /\ Len(file.lines) = Len(StateKeys)
    /\ \A i \in DOMAIN file.lines : file.lines[i][1] = StateKeys[i]

\* C16: the state document is saved atomically: at every point at which a
\* command can be interrupted, also inside save, the state file holds a
\* complete document, so a later load never sees a partial or empty one and
\* never falls back to the default state.
C16_AtomicSave == state_file.exists => CompleteDocument(state_file)

\* ------------------------------------------------------------------------
\* Properties of the handoff files
\* ------------------------------------------------------------------------

\* C17: handoff documents are append-only: after any sequence of successful
\* create_handoff calls, also several for the same pair of agents, the number
\* of handoff files equals the number of successful calls, no call having
\* written over the file of an earlier one.
C17_AppendOnly == Cardinality(DOMAIN handoffs_dir.files) = handoffs_dir.writes

\* The matching files of a call, told from the fields of their names.
FilesFor(from_agent, to_agent) ==
    {name \in DOMAIN handoffs_dir.files :
        /\ from_agent # NoAgent => name.from_agent = from_agent
        /\ to_agent # NoAgent => name.to_agent = to_agent}

C18_Found ==
    last.op = "find_latest_handoff" =>
        LET files == FilesFor(last.from_agent, last.to_agent)
        IN  IF ~handoffs_dir.exists \/ files = {}
            THEN last.result = NoHandoffFile
            ELSE /\ last.result \in files
                 /\ \A name \in files :
                       handoffs_dir.files[name].mtime
                           <= handoffs_dir.files[last.result].mtime

C18_Step ==
    (last'.op = "create_handoff" /\ last'.outcome = "ok"
        /\ handoffs_dir'.writes = handoffs_dir.writes + 1) =>
        LET found == find_latest_handoff(handoffs_dir', last'.from_agent,
                                         last'.to_agent)
        IN  /\ found = HandoffFileName(last'.from_agent, last'.to_agent, clock)
            /\ handoffs_dir'.files[found].handoff.data = last'.data

\* C18: find_latest_handoff returns none when the directory does not exist or
\* no handoff file matches the filters, and otherwise the matching file with
\* the newest modification time; right after a successful create_handoff for
\* (F, T) it returns, for F and T, the file just created.
C18_FindLatest == [](C18_Found) /\ [][C18_Step]_vars

\* Two handoffs for the same agents were written in different seconds and the
\* search for these agents has returned the later one.
C18_Witness ==
    /\ last.op = "find_latest_handoff"
    /\ last.from_agent # NoAgent /\ last.to_agent # NoAgent
    /\ Cardinality(FilesFor(last.from_agent, last.to_agent)) = 2
    /\ last.result # NoHandoffFile
    /\ handoffs_dir.files[last.result].mtime = 2

\* The extension of the schema file of a contract that comes first in the
\* order .schema.yaml, .schema.json, .yaml, .json; "none" when there is none.
FirstExisting(contract_name) ==
    IF <<contract_name, ".schema.yaml">> \in DOMAIN contracts_dir
    THEN ".schema.yaml"
    ELSE IF <<contract_name, ".schema.json">> \in DOMAIN contracts_dir
    THEN ".schema.json"
    ELSE IF <<contract_name, ".yaml">> \in DOMAIN contracts_dir THEN ".yaml"
    ELSE IF <<contract_name, ".json">> \in DOMAIN contracts_dir THEN ".json"
    ELSE "none"

C19_Step ==
    last'.op \in {"load_schema", "validate", "create_handoff"} =>
        LET contract_name == last'.contract
            ext == FirstExisting(contract_name)
        IN  /\ ext = "none" =>
                  /\ last'.outcome = "FileNotFoundError"
                  /\ handoffs_dir' = handoffs_dir
                  /\ schemas' = schemas
            /\ (ext # "none" /\ contract_name \notin DOMAIN schemas) =>
                  /\ last'.outcome # "FileNotFoundError"
                  /\ contract_name \in DOMAIN schemas'
                  /\ schemas'[contract_name]
                         = contracts_dir[<<contract_name, ext>>]
                  /\ last'.op = "load_schema" =>
                         last'.schema = contracts_dir[<<contract_name, ext>>]

\* C19: on the first load of a contract name load_schema returns the content
\* of the first existing file among <name>.schema.yaml, <name>.schema.json,
\* <name>.yaml, <name>.json, and raises FileNotFoundError when none of the
\* four exists; validate and create_handoff then fail with it too and write
\* nothing.
C19_SchemaResolution == [][C19_Step]_vars

\* A contract with two schema files was loaded and the schema returned is the
\* one of the file earlier in the order, which differs from the other.
C19_Witness ==
    /\ last.op = "load_schema" /\ last.outcome = "ok"
    /\ <<last.contract, ".schema.json">> \in DOMAIN contracts_dir
    /\ <<last.contract, ".yaml">> \in DOMAIN contracts_dir
    /\ last.schema = contracts_dir[<<last.contract, ".schema.json">>]
    /\ last.schema # contracts_dir[<<last.contract, ".yaml">>]

\* ------------------------------------------------------------------------
\* Properties of the splitter on the dataset of the tests
\* ------------------------------------------------------------------------

\* A split of the 100 paired images with the default ratios and seed.
DefaultSplit(run, stratify) ==
    /\ run.op = "split" /\ run.outcome = "ok"
    /\ <<run.train_ratio, run.val_ratio, run.test_ratio>> = DefaultRatios
    /\ run.seed = DefaultSeed /\ run.stratify = stratify
    /\ run.result.total = ScenarioImages

Sizes(run) == <<run.result.train, run.result.val, run.result.test>>

\* C20 as stated: with 100 paired images balanced over 3 classes, the default
\* ratios 0.8/0.15/0.05, seed 42 and stratify=True, split() returns exactly
\* train=80, val=15, test=5.
C20_Sizes_80_15_5 ==
    \A i \in DOMAIN runs :
        DefaultSplit(runs[i], TRUE) => Sizes(runs[i]) = <<80, 15, 5>>

\* C20 as amended: with 100 paired images balanced over 3 classes (groups of
\* 34, 33 and 33), the default ratios, seed 42 and stratify=True, split()
\* returns train=79, val=13, test=8, 100 in all: each class group is cut at
\* int(n * 0.8) and int(n * 0.8) + int(n * 0.15) and the rest of the group goes
\* to test. Without stratification the same call returns 80, 15 and 5.
C20_Sizes_79_13_8 ==
    \A i \in DOMAIN runs :
        /\ DefaultSplit(runs[i], TRUE) =>
              /\ Sizes(runs[i]) = <<79, 13, 8>>
              /\ Len(runs[i].splits.train) = 79
              /\ Len(runs[i].splits.val) = 13
              /\ Len(runs[i].splits.test) = 8
        /\ DefaultSplit(runs[i], FALSE) => Sizes(runs[i]) = <<80, 15, 5>>

\* The stratified split of the 100 images has been made.
C20_Witness ==
    /\ last.op = "split" /\ DefaultSplit(last, TRUE)
    /\ Len(find_pairs(raw_dir)) = ScenarioImages
    /\ last.result.classes # <<>>
    /\ last.result.train + last.result.val + last.result.test = ScenarioImages

\* ------------------------------------------------------------------------
\* Properties of the YOLO annotation format check
\* ------------------------------------------------------------------------

\* What a field of a line denotes: an integer, a number, a number of an
\* interval (limits in thousandths; nan lies in no interval).
IsInteger(text) == text.kind = "int"
IsNumeric(text) == text.kind \in {"int", "dec", "nan"}
Thousandths(text) == IF text.kind = "int" THEN text.value * 1000 ELSE text.value
OutsideClosed(text) ==
    text.kind = "nan" \/ Thousandths(text) < 0 \/ Thousandths(text) > 1000
OutsideHalfOpen(text) ==
    text.kind = "nan" \/ Thousandths(text) <= 0 \/ Thousandths(text) > 1000

\* The invalid lines of the format: not 5 fields, a class id that is not an
\* integer or is negative, a coordinate that is not numeric, x or y outside
\* [0,1], w or h outside (0,1].
InvalidLine(parts) ==
    \/ Len(parts) # 5
    \/ /\ Len(parts) = 5
       /\ \/ ~IsInteger(parts[1])
          \/ \E i \in 2..5 : ~IsNumeric(parts[i])
          \/ /\ IsInteger(parts[1]) /\ \A i \in 2..5 : IsNumeric(parts[i])
             /\ \/ parts[1].value < 0
                \/ OutsideClosed(parts[2]) \/ OutsideClosed(parts[3])
                \/ OutsideHalfOpen(parts[4]) \/ OutsideHalfOpen(parts[5])

Collected(name, line_num) ==
    \E k \in DOMAIN last.invalid_files :
        /\ last.invalid_files[k].name = name
        /\ last.invalid_files[k].line_num = line_num

Named(name) ==
    \E k \in DOMAIN last.invalid_files : last.invalid_files[k].name = name

ReadableFiles ==
    {k \in DOMAIN last.label_files : last.label_files[k].readable}

\* C21: after _validate_yolo_format, a non-blank line of a sampled file is
\* among the invalid entries exactly when it is an invalid line of the format
\* (a blank line never is); with any invalid entry an error was added and
\* passed is false; a file with no lines is counted as empty and has no
\* invalid entry; and a sample whose lines are all valid leaves the errors and
\* passed as they were.
C21_YoloFormat ==
    last.op = "_validate_yolo_format" =>
        /\ \A k \in ReadableFiles :
               LET file == last.label_files[k]
               IN  \A i \in DOMAIN file.lines :
                       Collected(file.name, i) <=>
                           (file.lines[i] # <<>> /\ InvalidLine(file.lines[i]))
        /\ last.invalid_files # <<>> =>
               /\ ~validation_result.passed
               /\ Len(validation_result.errors) = Len(last.before.errors) + 1
               /\ validation_result.errors[Len(validation_result.errors)].count
                      = Len(last.invalid_files)
        /\ last.empty_label_files =
               Cardinality({k \in ReadableFiles : last.label_files[k].lines = <<>>})
        /\ \A k \in ReadableFiles :
               last.label_files[k].lines = <<>> => ~Named(last.label_files[k].name)
        /\ (/\ ReadableFiles = DOMAIN last.label_files
            /\ \A k \in ReadableFiles :
                   \A i \in DOMAIN last.label_files[k].lines :
                       LET parts == last.label_files[k].lines[i]
                       IN  parts = <<>> \/ ~InvalidLine(parts))
           => /\ validation_result.errors = last.before.errors
              /\ validation_result.passed = last.before.passed

\* A sample with a line whose width is 0 and with an empty file has been
\* checked: the line is collected, the file counted, passed is false.
C21_Witness ==
    /\ last.op = "_validate_yolo_format"
    /\ last.before.passed /\ ~validation_result.passed
    /\ last.empty_label_files = 1
    /\ \E k \in DOMAIN last.label_files :
           /\ Len(last.label_files[k].lines) = 2
           /\ Parses(last.label_files[k].lines[2])
           /\ last.label_files[k].lines[2][4] = DecText(0)
           /\ Collected(last.label_files[k].name, 2)
           /\ ~Collected(last.label_files[k].name, 1)

\* ------------------------------------------------------------------------
\* Properties of the experiments
\* ------------------------------------------------------------------------

ExperimentsWith(id) ==
    {i \in DOMAIN procs["p1"].state.experiments :
         procs["p1"].state.experiments[i].id = id}

\* C22: experiments are unique by id: no two entries of the list have the same
\* id, and get_experiment(id) returns the single experiment with that id, or
\* None when there is none.
C22_UniqueById ==
    /\ \A id \in ExperimentIds : Cardinality(ExperimentsWith(id)) <= 1
    /\ last.op = "get_experiment" =>
           IF ExperimentsWith(last.arg) = {} THEN last.result = None
           ELSE /\ Cardinality(ExperimentsWith(last.arg)) = 1
                /\ \A i \in ExperimentsWith(last.arg) :
                       last.result = <<procs["p1"].state.experiments[i]>>

\* ------------------------------------------------------------------------
\* Properties of the workflow maps with two workflows
\* ------------------------------------------------------------------------

ProgressOf(progress, w) == get_workflow_progress(progress, w)
ArtifactsOf(artifacts, w) == get_workflow_artifacts(artifacts, w)

IsPrefix(s, t) == Len(s) <= Len(t) /\ SubSeq(t, 1, Len(s)) = s

\* The entry of a dict, <<>> when the key is absent.
Entry(dict, key) == IF key \in DOMAIN dict THEN <<dict[key]>> ELSE <<>>

ResetsNow(w) == last'.op = "reset_workflow" /\ last'.workflow_id = w

\* No list of completed steps holds a step id twice.
C23_NoDuplicates ==
    \A w \in DOMAIN workflow_progress : \A i, j \in DOMAIN workflow_progress[w] :
        workflow_progress[w][i] = workflow_progress[w][j] => i = j

C23_Step ==
    \A w \in StateWorkflowIds :
        IF ResetsNow(w)
        THEN /\ ProgressOf(workflow_progress', w) = <<>>
             /\ DOMAIN ArtifactsOf(workflow_artifacts', w) = {}
             /\ \A v \in StateWorkflowIds \ {w} :
                    /\ Entry(workflow_progress', v) = Entry(workflow_progress, v)
                    /\ Entry(workflow_artifacts', v) = Entry(workflow_artifacts, v)
        ELSE IsPrefix(ProgressOf(workflow_progress, w), ProgressOf(workflow_progress', w))

\* C23: a step id in workflow_progress[w] stays there, in its position and
\* never twice, through every complete_step, complete_workflow_step and reset
\* of another workflow, until reset_workflow(w); reset_workflow(w) empties the
\* progress and artifacts of w and leaves those of every other workflow as
\* they were.
C23_CompletedUntilReset == [](C23_NoDuplicates) /\ [][C23_Step]_vars

\* Workflow w2 has just been reset while w1 and the workflow with no
\* definition have completed steps and artifacts.
C23_Witness ==
    /\ last.op = "reset_workflow" /\ last.workflow_id = "w2"
    /\ "w2" \notin DOMAIN workflow_progress
    /\ Len(ProgressOf(workflow_progress, "w1")) = 2
    /\ DOMAIN ArtifactsOf(workflow_artifacts, "w1") # {}
    /\ ProgressOf(workflow_progress, UnknownWorkflow) # <<>>

\* C29: artifacts belong to completed steps only: every step id with an entry
\* in workflow_artifacts[w] is in workflow_progress[w], and a workflow id in
\* workflow_artifacts is in workflow_progress.
C29_ArtifactsOfCompletedSteps ==
    \A w \in DOMAIN workflow_artifacts :
        /\ w \in DOMAIN workflow_progress
        /\ \A s \in DOMAIN workflow_artifacts[w] : In(s, workflow_progress[w])

\* A workflow has artifacts for one of its two completed steps, after another
\* workflow with artifacts was reset.
C29_Witness ==
    /\ last.op = "reset_workflow" /\ last.workflow_id = "w1"
    /\ "w2" \in DOMAIN workflow_artifacts
    /\ DOMAIN workflow_artifacts["w2"] = {"b"}
    /\ Len(workflow_progress["w2"]) = 2
    /\ DOMAIN workflow_artifacts = {"w2"}

\* ------------------------------------------------------------------------
\* Properties of the image checks
\* ------------------------------------------------------------------------

CorruptFiles == {i \in DOMAIN last.images_dir[1] : ~last.images_dir[1][i].opens}
ImageFiles == DOMAIN last.images_dir[1]

\* C24: when the raw directory holds corrupt image files, validation adds an
\* error (passed becomes false) exactly when the corrupt files are more than
\* 10% of all image files of the directory, the corrupt ones included, and
\* otherwise adds only a warning that lists up to 3 of them.
C24_CorruptThreshold ==
    (/\ last.op = "_validate_images" /\ last.images_dir # <<>>
     /\ CorruptFiles # {})
    => IF Cardinality(CorruptFiles) * 10 > Cardinality(ImageFiles)
       THEN ~validation_result.passed /\ validation_result.errors # <<>>
       ELSE /\ validation_result.passed /\ validation_result.errors = <<>>
            /\ \E k \in DOMAIN validation_result.warnings :
                   /\ validation_result.warnings[k].text = "corrupt images found"
                   /\ Len(validation_result.warnings[k].sample) <= 3

\* ------------------------------------------------------------------------
\* Properties of the step validate_workflow names
\* ------------------------------------------------------------------------

\* The step ids that lie on a cycle of the depends_on graph.
OnCycle(w) == {e[1] : e \in {c \in Closure(AllEdges(w), AllEdges(w)) : c[1] = c[2]}}

\* The step ids validate_workflow names in circular dependency errors.
NamedInCycleError ==
    {last.result.errors[k].step :
         k \in {j \in DOMAIN last.result.errors :
                    last.result.errors[j].kind = "circular dependency"}}

\* C25: the step validate_workflow names in a circular dependency error is
\* the first step, in declared order, that lies on a dependency cycle; a step
\* that only depends on a cycle is never named.
C25_NamesCycleStep ==
    (last.op = "validate_workflow" /\ last.workflow_id \in DOMAIN workflows)
    => \A s \in NamedInCycleError :
           /\ s \in OnCycle(last.workflow_id)
           /\ \A i \in DOMAIN StepsOf(last.workflow_id) :
                  StepsOf(last.workflow_id)[i].id \in OnCycle(last.workflow_id)
                      => FirstDeclared(last.workflow_id, s) <= i

\* C26: in every state reached from empty progress through complete_step
\* calls (accepted or rejected) and reset_workflow calls, every id in
\* workflow_progress[w] is a step of workflow w, and every dependency of the
\* step that id resolves to is in the list too, at an earlier position.
C26_DependencyClosure ==
    \A w \in DOMAIN workflow_progress : \A n \in DOMAIN workflow_progress[w] :
        /\ w \in DOMAIN workflows
        /\ Declared(w, workflow_progress[w][n])
        /\ LET step == StepsOf(w)[FirstDeclared(w, workflow_progress[w][n])]
           IN  \A k \in DOMAIN step.depends_on :
                   \E m \in 1..(n - 1) : workflow_progress[w][m] = step.depends_on[k]

\* C26 witness: a step with a dependency is in the list behind the step it
\* depends on, and the last call was rejected.
C26_Witness ==
    /\ last.op = "complete_step"
    /\ last.outcome \in {"ValueError: Dependency not met", "ValueError: Step not found"}
    /\ \E w \in DOMAIN workflow_progress : \E n \in DOMAIN workflow_progress[w] :
           /\ Declared(w, workflow_progress[w][n])
           /\ StepsOf(w)[FirstDeclared(w, workflow_progress[w][n])].depends_on # <<>>

\* The report of workflow w on the current progress.
ProgressReport(w) == get_progress(workflows[w], Completed(w))
DistinctStepIds(w) == {StepsOf(w)[i].id : i \in DOMAIN StepsOf(w)}
UniqueStepIds(w) == Cardinality(DistinctStepIds(w)) = Len(StepsOf(w))

NeverStuck(w) ==
    /\ (last.op = "complete_step" => last.outcome = "ok")
    /\ (get_next_step(workflows[w], Completed(w)) = NoStep
            => ProgressReport(w).is_complete)
    /\ (ProgressReport(w).is_complete
            <=> Len(Completed(w)) = Cardinality(DistinctStepIds(w)))

\* C27: for a workflow validate_workflow reports valid, completed from empty
\* progress by calling complete_step on the step get_next_step returns, every
\* call succeeds, get_next_step returns none only when is_complete holds,
\* is_complete holds exactly when as many steps were completed as there are
\* distinct step ids, and is_complete is eventually reached.
C27_ValidWorkflowCompletes ==
    /\ [](\A w \in DOMAIN workflows : NeverStuck(w))
    /\ <>(\A w \in DOMAIN workflows : ProgressReport(w).is_complete)

\* The same for the definitions that declare every step id once.
C27_UniqueIdsComplete ==
    /\ []((\A w \in DOMAIN workflows : UniqueStepIds(w))
              => \A w \in DOMAIN workflows : NeverStuck(w))
    /\ ((\A w \in DOMAIN workflows : UniqueStepIds(w))
              => <>(\A w \in DOMAIN workflows : ProgressReport(w).is_complete))

\* A run of a definition with three different steps, completed in an order
\* other than the declared one.
C27_UniqueIdsWitness ==
    \E w \in DOMAIN workflows :
        /\ UniqueStepIds(w)
        /\ Len(StepsOf(w)) = 3
        /\ ProgressReport(w).is_complete
        /\ Completed(w)[1] # StepsOf(w)[1].id

\* C28: after any sequence of successful split calls on the same data
\* directory, no image name is in more than one of the train, val and test
\* image directories, and get_split_stats reports the train, val and test
\* counts the most recent split returned.
C28_DisjointAcrossRuns ==
    (runs # <<>> /\ \A r \in DOMAIN runs : runs[r].outcome = "ok")
    => /\ output_dir.images["train"] \cap output_dir.images["val"] = {}
       /\ output_dir.images["train"] \cap output_dir.images["test"] = {}
       /\ output_dir.images["val"] \cap output_dir.images["test"] = {}
       /\ LET stats == get_split_stats(output_dir)
              result == runs[Len(runs)].result
          IN  /\ stats.train = result.train
              /\ stats.val = result.val
              /\ stats.test = result.test

\* The same after the first successful split into an empty output directory.
C28_DisjointAfterFirstRun ==
    (Len(runs) = 1 /\ runs[1].outcome = "ok")
    => /\ output_dir.images["train"] \cap output_dir.images["val"] = {}
       /\ output_dir.images["train"] \cap output_dir.images["test"] = {}
       /\ output_dir.images["val"] \cap output_dir.images["test"] = {}
       /\ get_split_stats(output_dir).train = runs[1].result.train
       /\ get_split_stats(output_dir).val = runs[1].result.val
       /\ get_split_stats(output_dir).test = runs[1].result.test

\* The persisted state is at the end of the pipeline: current_stage is
\* 'complete', or the four stages are completed and current_stage is past
\* 'deployment'.
Terminal(state) ==
    \/ state.current_stage = "complete"
    \/ /\ \A stage \in StageNames : In(stage, state.stages_completed)
       /\ state.current_stage \notin StageNames \cup {"uninitialized"}

\* C30: from the initialized state, prepare, train, evaluate and deploy
\* commands that succeed eventually bring the persisted state to the end of
\* the pipeline, where croak next reports the pipeline as complete.
C30_CompletionReached ==
    <>(/\ Terminal(load(state_file))
       /\ last.op = "next"
       /\ last.report = "complete")

\* What the commands reach instead: the persisted state is never at the end
\* of the pipeline and croak next never reports it complete; no command
\* completes 'data_preparation' or 'deployment'.
C30_NeverComplete ==
    /\ ~Terminal(load(state_file))
    /\ next_report(load(state_file)) # "complete"
    /\ ~In("data_preparation", load(state_file).stages_completed)
    /\ ~In("deployment", load(state_file).stages_completed)
    /\ load(state_file).current_stage \in {"uninitialized", "evaluation", "deployment"}

\* Training and evaluation succeeded, deploy succeeded, and croak next was run.
C30_AfterDeploy ==
    /\ last.op = "next"
    /\ In("training", load(state_file).stages_completed)
    /\ In("evaluation", load(state_file).stages_completed)
    /\ load(state_file).current_stage = "deployment"

====
